---- MODULE Spec2Model ----
(***************************************************************************)
(* LakebridgeAdapter (workshop/core/lakebridge_adapter.py): the resilient  *)
(* adapter that probes the external migration CLI once at construction and *)
(* routes analyze / transpile / test-connection calls to the native tool   *)
(* or to the built-in fallback.                                            *)
(*                                                                         *)
(* Python strings whose characters the code inspects (probe output,        *)
(* version strings) are sequences of one-character strings.  Strings the   *)
(* code only stores or compares as a whole are TLA+ strings.               *)
(***************************************************************************)
EXTENDS Integers, Sequences, FiniteSets, TLC

VARIABLES
    phase,                \* "new" | "ready" | "raised" (adapter), "classify" | "classified" (SpecVersion)
    fallback_mode,        \* self.fallback_mode
    simulate_unavailable, \* self.simulate_unavailable
    lakebridge_available, \* self.lakebridge_available
    lakebridge_version,   \* self.lakebridge_version
    compatibility_status, \* self.compatibility_status
    fallback_reason,      \* self.fallback_reason
    probe,                \* how the external invocations of __init__ ended
    last_call,            \* the last operation called and its inputs
    invocations,          \* the subprocess.run commands the last operation executed, in order
    result,               \* the value the last operation returned
    written,              \* the files the last operation itself wrote (not those the tool wrote)
    exception             \* the exception that left the last operation, or None

vars == <<phase, fallback_mode, simulate_unavailable, lakebridge_available,
          lakebridge_version, compatibility_status, fallback_reason,
          probe, last_call, invocations, result, written, exception>>

\* the fields of self
self_vars == <<fallback_mode, simulate_unavailable, lakebridge_available,
               lakebridge_version, compatibility_status, fallback_reason>>

\* Python's None where a string is expected: a sequence that is no string
None == <<"None">>
\* no exception / no value returned
NoException == "NoException"
NoResult == [none |-> TRUE]

(***************************************************************************)
(* Bounds                                                                  *)
(***************************************************************************)
\* longest version string drawn for the version classifier
MaxVerLen == 5
\* most items (tokens and newlines) in the output of `databricks labs installed`
MaxLabsItems == 3
\* most *.sql files in an analysed directory
MaxSqlFiles == 2
\* most items (keywords and other tokens) in a text that is scored
MaxScoreItems == 3
\* most items (keywords, numbers, names) in a text that is transpiled
MaxSqlItems == 3
\* entries of the mappings given to create_migration_waves
MaxWaveFiles == 2
\* calls made on one adapter after its construction
MaxCalls == 2

(***************************************************************************)
(* Character-level string helpers (str methods the code calls)             *)
(***************************************************************************)
DigitChars == {"0", "1", "2", "3", "5"}
Whitespace == {" ", "\n"}

DigitVal(c) ==
    CASE c = "0" -> 0 [] c = "1" -> 1 [] c = "2" -> 2 [] c = "3" -> 3 [] c = "5" -> 5

LowerAlpha == <<"a", "b", "c", "d", "e", "f", "g", "h", "i", "j", "k", "l", "m", "n", "o", "p", "q", "r", "s", "t", "u", "v", "w", "x", "y", "z">>
UpperAlpha == <<"A", "B", "C", "D", "E", "F", "G", "H", "I", "J", "K", "L", "M", "N", "O", "P", "Q", "R", "S", "T", "U", "V", "W", "X", "Y", "Z">>

\* str.lower() on one character
LowerChar(c) ==
    CASE c = "A" -> "a" [] c = "B" -> "b" [] c = "C" -> "c" [] c = "D" -> "d" [] c = "E" -> "e" [] c = "F" -> "f"
      [] c = "G" -> "g" [] c = "H" -> "h" [] c = "I" -> "i" [] c = "J" -> "j" [] c = "K" -> "k" [] c = "L" -> "l"
      [] c = "M" -> "m" [] c = "N" -> "n" [] c = "O" -> "o" [] c = "P" -> "p" [] c = "Q" -> "q" [] c = "R" -> "r"
      [] c = "S" -> "s" [] c = "T" -> "t" [] c = "U" -> "u" [] c = "V" -> "v" [] c = "W" -> "w" [] c = "X" -> "x"
      [] c = "Y" -> "y" [] c = "Z" -> "z"
      [] OTHER -> c

Lower(s) == [i \in 1..Len(s) |-> LowerChar(s[i])]

\* str.isdigit(): non-empty and every character a digit
IsDigit(s) == Len(s) > 0 /\ \A i \in 1..Len(s) : s[i] \in DigitChars

\* any(char.isdigit() for char in s)
AnyDigit(s) == \E i \in 1..Len(s) : s[i] \in DigitChars

\* int(s) for a digit string
RECURSIVE ToNat(_)
ToNat(s) ==
    IF s = <<>> THEN 0
    ELSE 10 * ToNat(SubSeq(s, 1, Len(s) - 1)) + DigitVal(s[Len(s)])

\* sub in s
Contains(s, sub) ==
    \E i \in 0..(Len(s) - Len(sub)) : SubSeq(s, i + 1, i + Len(sub)) = sub

\* s.replace(c, '') for a set of characters
RemoveChars(s, cs) == SelectSeq(s, LAMBDA c : c \notin cs)

\* the leftmost of a non-empty set of positions: the scans of str.split and
\* re.sub go from the left and take the first match they meet
Leftmost(starts) == CHOOSE j \in starts : \A k \in starts : j <= k

\* s.strip()
RECURSIVE LStrip(_)
LStrip(s) ==
    IF s # <<>> /\ Head(s) \in Whitespace THEN LStrip(Tail(s)) ELSE s

RECURSIVE RStrip(_)
RStrip(s) ==
    IF s # <<>> /\ s[Len(s)] \in Whitespace THEN RStrip(SubSeq(s, 1, Len(s) - 1)) ELSE s

Strip(s) == RStrip(LStrip(s))

\* s.split(c) for a one-character separator: empty fields are kept
\* (SplitAfter: the first separator is at position j)
RECURSIVE SplitOn(_, _)
SplitAfter(s, c, j) == <<SubSeq(s, 1, j - 1)>> \o SplitOn(SubSeq(s, j + 1, Len(s)), c)
SplitOn(s, c) ==
    LET seps == {i \in 1..Len(s) : s[i] = c}
    IN  IF seps = {} THEN <<s>>
        ELSE SplitAfter(s, c, Leftmost(seps))

\* s.split(): split on runs of whitespace, no empty fields
\* (SplitWSAfter: the text starts with a field that ends at position e)
RECURSIVE SplitWS(_)
SplitWSAfter(s, e) == <<SubSeq(s, 1, e)>> \o SplitWS(SubSeq(s, e + 1, Len(s)))
SplitWS(s) ==
    IF LStrip(s) = <<>> THEN <<>>
    ELSE SplitWSAfter(LStrip(s),
                      Leftmost({e \in 1..Len(LStrip(s)) :
                                   e = Len(LStrip(s)) \/ LStrip(s)[e + 1] \in Whitespace}))

(***************************************************************************)
(* packaging.version                                                        *)
(***************************************************************************)
InvalidVersion == "InvalidVersion"

\* Version._key for a release-only version: the release with trailing zeros dropped
RECURSIVE DropTrailingZeros(_)
DropTrailingZeros(r) ==
    IF r # <<>> /\ r[Len(r)] = 0 THEN DropTrailingZeros(SubSeq(r, 1, Len(r) - 1)) ELSE r

\* version.parse(s): optional surrounding whitespace, an optional leading "v",
\* then dot-separated digit runs; anything else raises InvalidVersion.  (The
\* pre/post/dev/local segments of PEP 440 need letters or signs that the
\* model's version alphabet does not hold.)
version_parse(s) ==
    LET t == Lower(Strip(s))
        u == IF t # <<>> /\ Head(t) = "v" THEN Tail(t) ELSE t
        parts == SplitOn(u, ".")
    IN  IF \A i \in 1..Len(parts) : IsDigit(parts[i])
        THEN [exc |-> NoException,
              key |-> DropTrailingZeros([i \in 1..Len(parts) |-> ToNat(parts[i])])]
        ELSE [exc |-> InvalidVersion, key |-> <<>>]

\* a < b on version keys: tuple comparison
RECURSIVE VersionLess(_, _)
VersionLess(a, b) ==
    IF b = <<>> THEN FALSE
    ELSE IF a = <<>> THEN TRUE
    ELSE IF Head(a) # Head(b) THEN Head(a) < Head(b)
    ELSE VersionLess(Tail(a), Tail(b))

(***************************************************************************)
(* LakebridgeAdapter.SUPPORTED_VERSIONS                                     *)
(***************************************************************************)
SUPPORTED_VERSIONS ==
    [minimum |-> <<"0", ".", "1", ".", "0">>,
     maximum |-> <<"2", ".", "0", ".", "0">>,
     recommended |-> <<"0", ".", "3", ".", "0">>]

UNKNOWN == <<"u", "n", "k", "n", "o", "w", "n">>

TooOld == "too_old (minimum: 0.1.0)"
TooNew == "too_new (maximum: 2.0.0)"

\* _check_version_compatibility with `>` in place of `>=` at the maximum
check_version_compatibility_inclusive_max(version) ==
    IF version = None \/ version = <<>> \/ version = UNKNOWN
    THEN [exc |-> NoException, val |-> "unknown_version"]
    ELSE LET current_version == version_parse(version)
             min_version == version_parse(SUPPORTED_VERSIONS.minimum)
             max_version == version_parse(SUPPORTED_VERSIONS.maximum)
         IN  IF current_version.exc # NoException
             THEN [exc |-> NoException, val |-> "parse_error"]
             ELSE IF VersionLess(current_version.key, min_version.key)
             THEN [exc |-> NoException, val |-> TooOld]
             ELSE IF VersionLess(max_version.key, current_version.key)
             THEN [exc |-> NoException, val |-> TooNew]
             ELSE [exc |-> NoException, val |-> "compatible"]

\* _check_version_compatibility without the try/except around the parse
check_version_compatibility_no_except(version) ==
    IF version = None \/ version = <<>> \/ version = UNKNOWN
    THEN [exc |-> NoException, val |-> "unknown_version"]
    ELSE LET current_version == version_parse(version)
             min_version == version_parse(SUPPORTED_VERSIONS.minimum)
             max_version == version_parse(SUPPORTED_VERSIONS.maximum)
         IN  IF current_version.exc # NoException
             THEN [exc |-> InvalidVersion, val |-> "unknown"]
             ELSE IF VersionLess(current_version.key, min_version.key)
             THEN [exc |-> NoException, val |-> TooOld]
             ELSE IF ~VersionLess(current_version.key, max_version.key)
             THEN [exc |-> NoException, val |-> TooNew]
             ELSE [exc |-> NoException, val |-> "compatible"]

\* _check_version_compatibility(self): [exc: the exception raised or None, val: the value returned]
check_version_compatibility(version) ==
    IF version = None \/ version = <<>> \/ version = UNKNOWN
    THEN [exc |-> NoException, val |-> "unknown_version"]
    ELSE LET current_version == version_parse(version)
             min_version == version_parse(SUPPORTED_VERSIONS.minimum)
             max_version == version_parse(SUPPORTED_VERSIONS.maximum)
         IN  IF current_version.exc # NoException
             THEN [exc |-> NoException, val |-> "parse_error"]   \* except Exception
             ELSE IF VersionLess(current_version.key, min_version.key)
             THEN [exc |-> NoException, val |-> TooOld]
             ELSE IF ~VersionLess(current_version.key, max_version.key)
             THEN [exc |-> NoException, val |-> TooNew]
             ELSE [exc |-> NoException, val |-> "compatible"]

(***************************************************************************)
(* subprocess.run: what one invocation can do.  kind "ok" is returncode 0, *)
(* "nonzero" any other return code; the other kinds are the exception      *)
(* raised ("OSError" stands for any exception that is neither              *)
(* FileNotFoundError nor TimeoutExpired, e.g. PermissionError).            *)
(***************************************************************************)
FailureKinds == {"nonzero", "FileNotFoundError", "TimeoutExpired", "OSError"}
NotRun == [kind |-> "not_run", stdout |-> <<>>]
Failures == {[kind |-> k, stdout |-> <<>>] : k \in FailureKinds}

LAKEBRIDGE == <<"l", "a", "k", "e", "b", "r", "i", "d", "g", "e">>
VERSION == <<"v", "e", "r", "s", "i", "o", "n">>

\* all sequences over S of length at most n
SeqsUpTo(S, n) == UNION {[1..k -> S] : k \in 0..n}

\* the items joined by single spaces
RECURSIVE JoinItems(_)
JoinItems(items) ==
    IF items = <<>> THEN <<>>
    ELSE IF Len(items) = 1 THEN Head(items)
    ELSE Head(items) \o <<" ">> \o JoinItems(Tail(items))

\* stdout of `databricks labs installed`: tokens and line breaks
LabsItems ==
    {LAKEBRIDGE,
     <<"L", "a", "k", "e", "b", "r", "i", "d", "g", "e">>,
     <<"0", ".", "3", ".", "0">>,
     <<"x", ".", "y">>,
     <<"\n">>}
LabsOutputs == {JoinItems(items) : items \in SeqsUpTo(LabsItems, MaxLabsItems)}

\* stdout of `databricks labs show lakebridge`: nothing, a version line with a
\* too new, too old, compatible, malformed or empty value, a line without a colon,
\* a version line after another line, and a line whose key is not the version
VersionKey == <<"V", "e", "r", "s", "i", "o", "n", ":">>
NameKey == <<"n", "a", "m", "e", ":">>
ShowOutputs ==
    {JoinItems(items) : items \in
        {<<>>,
         <<VersionKey, <<"2", ".", "0", ".", "0">>>>,
         <<VersionKey, <<"0", ".", "0", ".", "5">>>>,
         <<VersionKey, <<"0", ".", "1", ".", "0">>>>,
         <<VersionKey, <<"1", ".", "x">>>>,
         <<VersionKey>>,
         <<VERSION, <<"2", ".", "0", ".", "0">>>>,
         <<NameKey, <<"x">>, <<"\n">>, VersionKey, <<"1", ".", "5">>>>,
         <<NameKey, <<"2", ".", "0", ".", "0">>>>}}

(***************************************************************************)
(* _extract_lakebridge_version                                             *)
(***************************************************************************)
\* for part in parts: the first part that passes the version-pattern test, or None
RECURSIVE first_version_part(_)
first_version_part(parts) ==
    IF parts = <<>> THEN None
    ELSE LET part == Head(parts)
         IN  IF /\ \/ IsDigit(RemoveChars(part, {".", "-", "_"}))
                   \/ AnyDigit(part)
                /\ Contains(part, <<".">>)
                /\ Len(SplitOn(part, ".")) >= 2
             THEN Strip(part)
             ELSE first_version_part(Tail(parts))

\* the loop over the lines without the test for 'lakebridge' in the line
RECURSIVE scan_installed_lines_every_line(_)
scan_installed_lines_every_line(lines) ==
    IF lines = <<>> THEN None
    ELSE IF first_version_part(SplitWS(Head(lines))) # None
    THEN first_version_part(SplitWS(Head(lines)))
    ELSE scan_installed_lines_every_line(Tail(lines))

\* for line in lines: only lines that contain 'lakebridge' are searched
RECURSIVE scan_installed_lines(_)
scan_installed_lines(lines) ==
    IF lines = <<>> THEN None
    ELSE LET line == Head(lines)
             part == IF Contains(Lower(line), LAKEBRIDGE)
                     THEN first_version_part(SplitWS(line))
                     ELSE None
         IN  IF part # None THEN part ELSE scan_installed_lines(Tail(lines))

\* for line in result.stdout.split('\n'): the first 'key: value' line whose text holds 'version'
RECURSIVE scan_show_lines(_)
scan_show_lines(lines) ==
    IF lines = <<>> THEN None
    ELSE LET line == Head(lines)
             parts == SplitOn(line, ":")
         IN  IF Contains(Lower(line), VERSION) /\ Len(parts) > 1
             THEN Strip(parts[2])
             ELSE scan_show_lines(Tail(lines))

\* [val: the version returned, ran_show: whether the show query was run]
extract_lakebridge_version(labs_output, show) ==
    LET found == scan_installed_lines(SplitOn(Strip(labs_output), "\n"))
    IN  IF found # None THEN [val |-> found, ran_show |-> FALSE]
        ELSE IF show.kind = "ok"
        THEN LET v == scan_show_lines(SplitOn(show.stdout, "\n"))
             IN  [val |-> IF v # None THEN v ELSE UNKNOWN, ran_show |-> TRUE]
        ELSE [val |-> UNKNOWN, ran_show |-> TRUE]   \* non-zero exit, or except Exception

(***************************************************************************)
(* __init__ and _check_lakebridge_availability                             *)
(***************************************************************************)
\* f-strings: a fixed prefix and the interpolated value
Reason(prefix, detail) == <<prefix, detail>>

\* str(e) of the exception the first check raises
CliErrorText(kind) ==
    CASE kind = "nonzero" -> "CalledProcessError"
      [] OTHER -> kind

\* the fields __init__ assigns before probing
InitialFields(fm, su) ==
    [fallback_mode |-> fm,
     simulate_unavailable |-> su,
     lakebridge_available |-> FALSE,
     lakebridge_version |-> None,
     compatibility_status |-> "unknown",
     fallback_reason |-> None]

CliCmd == "databricks --version"
LabsCmd == "databricks labs installed"
ShowCmd == "databricks labs show lakebridge"

\* the inner try block, going native whenever the extension is listed
installed_check_ignores_compatibility(self, labs, show) ==
    IF labs.kind = "TimeoutExpired"
    THEN [self |-> [self EXCEPT !.lakebridge_available = FALSE,
                                !.fallback_reason = Reason("Databricks labs command timeout", "")],
          invocations |-> <<LabsCmd>>, exc |-> NoException]
    ELSE IF labs.kind = "ok" /\ Contains(Lower(labs.stdout), LAKEBRIDGE)
    THEN LET ex == extract_lakebridge_version(labs.stdout, show)
             compat == check_version_compatibility(ex.val)
         IN  [self |-> [self EXCEPT !.lakebridge_version = ex.val,
                                    !.compatibility_status = compat.val,
                                    !.lakebridge_available = TRUE],
              invocations |-> <<LabsCmd>> \o (IF ex.ran_show THEN <<ShowCmd>> ELSE <<>>),
              exc |-> NoException]
    ELSE [self |-> [self EXCEPT !.lakebridge_available = FALSE,
                                !.fallback_reason = Reason("Lakebridge not installed via databricks labs", "")],
          invocations |-> <<LabsCmd>>, exc |-> NoException]

\* the inner try block whose except TimeoutExpired sets no fallback_reason
installed_check_silent_timeout(self, labs, show) ==
    IF labs.kind = "TimeoutExpired"
    THEN \* inner except
         [self |-> [self EXCEPT !.lakebridge_available = FALSE],
          invocations |-> <<LabsCmd>>, exc |-> NoException]
    ELSE IF labs.kind = "ok" /\ Contains(Lower(labs.stdout), LAKEBRIDGE)
    THEN LET ex == extract_lakebridge_version(labs.stdout, show)
             compat == check_version_compatibility(ex.val)
             ran == <<LabsCmd>> \o (IF ex.ran_show THEN <<ShowCmd>> ELSE <<>>)
             probed == [self EXCEPT !.lakebridge_version = ex.val]
         IN  IF compat.exc # NoException
             THEN [self |-> probed, invocations |-> ran, exc |-> compat.exc]
             ELSE IF compat.val = "compatible" /\ ~self.fallback_mode
             THEN [self |-> [probed EXCEPT !.compatibility_status = compat.val,
                                           !.lakebridge_available = TRUE],
                   invocations |-> ran, exc |-> NoException]
             ELSE [self |-> [probed EXCEPT !.compatibility_status = compat.val,
                                           !.lakebridge_available = FALSE,
                                           !.fallback_reason = Reason("Version compatibility: ", compat.val)],
                   invocations |-> ran, exc |-> NoException]
    ELSE [self |-> [self EXCEPT !.lakebridge_available = FALSE,
                                !.fallback_reason = Reason("Lakebridge not installed via databricks labs", "")],
          invocations |-> <<LabsCmd>>, exc |-> NoException]

\* the inner try block of _check_lakebridge_availability (the extension-installed
\* check) when `databricks labs installed` returns or times out:
\* [self: the fields afterwards, invocations: the commands run, exc: the exception that leaves it]
installed_check(self, labs, show) ==
    IF labs.kind = "TimeoutExpired"
    THEN \* inner except
         [self |-> [self EXCEPT !.lakebridge_available = FALSE,
                                !.fallback_reason = Reason("Databricks labs command timeout", "")],
          invocations |-> <<LabsCmd>>, exc |-> NoException]
    ELSE IF labs.kind = "ok" /\ Contains(Lower(labs.stdout), LAKEBRIDGE)
    THEN LET ex == extract_lakebridge_version(labs.stdout, show)
             compat == check_version_compatibility(ex.val)
             ran == <<LabsCmd>> \o (IF ex.ran_show THEN <<ShowCmd>> ELSE <<>>)
             probed == [self EXCEPT !.lakebridge_version = ex.val]
         IN  IF compat.exc # NoException
             THEN [self |-> probed, invocations |-> ran, exc |-> compat.exc]
             ELSE IF compat.val = "compatible" /\ ~self.fallback_mode
             THEN [self |-> [probed EXCEPT !.compatibility_status = compat.val,
                                           !.lakebridge_available = TRUE],
                   invocations |-> ran, exc |-> NoException]
             ELSE [self |-> [probed EXCEPT !.compatibility_status = compat.val,
                                           !.lakebridge_available = FALSE,
                                           !.fallback_reason = Reason("Version compatibility: ", compat.val)],
                   invocations |-> ran, exc |-> NoException]
    ELSE [self |-> [self EXCEPT !.lakebridge_available = FALSE,
                                !.fallback_reason = Reason("Lakebridge not installed via databricks labs", "")],
          invocations |-> <<LabsCmd>>, exc |-> NoException]

\* _check_lakebridge_availability whose outer except does not name TimeoutExpired
check_lakebridge_availability_uncaught_timeout(self, cli, labs, show) ==
    IF self.simulate_unavailable
    THEN [self |-> [self EXCEPT !.lakebridge_available = FALSE,
                                !.fallback_reason = Reason("Simulated unavailability for testing", "")],
          invocations |-> <<>>, exc |-> NoException]
    ELSE IF cli.kind \in {"OSError", "TimeoutExpired"}
    THEN [self |-> self, invocations |-> <<CliCmd>>, exc |-> cli.kind]
    ELSE IF cli.kind # "ok"
    THEN [self |-> [self EXCEPT !.lakebridge_available = FALSE,
                                !.fallback_reason = Reason("Databricks CLI unavailable: ", CliErrorText(cli.kind))],
          invocations |-> <<CliCmd>>, exc |-> NoException]
    ELSE IF labs.kind = "FileNotFoundError"
    THEN [self |-> [self EXCEPT !.lakebridge_available = FALSE,
                                !.fallback_reason = Reason("Databricks CLI unavailable: ", CliErrorText(labs.kind))],
          invocations |-> <<CliCmd, LabsCmd>>, exc |-> NoException]
    ELSE IF labs.kind = "OSError"
    THEN [self |-> self, invocations |-> <<CliCmd, LabsCmd>>, exc |-> "OSError"]
    ELSE LET r == installed_check(self, labs, show)
         IN  [r EXCEPT !.invocations = <<CliCmd>> \o r.invocations]

\* _check_lakebridge_availability(self) under the outcomes cli, labs, show of the
\* three external invocations (those it reaches):
\* [self: the fields afterwards, invocations: the commands run, exc: the exception that leaves it]
check_lakebridge_availability(self, cli, labs, show) ==
    IF self.simulate_unavailable
    THEN [self |-> [self EXCEPT !.lakebridge_available = FALSE,
                                !.fallback_reason = Reason("Simulated unavailability for testing", "")],
          invocations |-> <<>>, exc |-> NoException]
    ELSE IF cli.kind = "OSError"
    THEN \* not among the exceptions the outer except names: it leaves __init__
         [self |-> self, invocations |-> <<CliCmd>>, exc |-> "OSError"]
    ELSE IF cli.kind # "ok"
    THEN \* FileNotFoundError, TimeoutExpired, or the CalledProcessError raised on a
         \* non-zero exit: outer except
         [self |-> [self EXCEPT !.lakebridge_available = FALSE,
                                !.fallback_reason = Reason("Databricks CLI unavailable: ", CliErrorText(cli.kind))],
          invocations |-> <<CliCmd>>, exc |-> NoException]
    ELSE IF labs.kind = "FileNotFoundError"
    THEN \* raised inside the inner try, caught by the outer except
         [self |-> [self EXCEPT !.lakebridge_available = FALSE,
                                !.fallback_reason = Reason("Databricks CLI unavailable: ", CliErrorText(labs.kind))],
          invocations |-> <<CliCmd, LabsCmd>>, exc |-> NoException]
    ELSE IF labs.kind = "OSError"
    THEN [self |-> self, invocations |-> <<CliCmd, LabsCmd>>, exc |-> "OSError"]
    ELSE LET r == installed_check(self, labs, show)
         IN  [r EXCEPT !.invocations = <<CliCmd>> \o r.invocations]

\* whether the probe reaches the second / the third invocation
ReachesLabs(su, cli) == ~su /\ cli.kind = "ok"
ReachesShow(su, cli, labs) ==
    /\ ReachesLabs(su, cli)
    /\ labs.kind = "ok"
    /\ Contains(Lower(labs.stdout), LAKEBRIDGE)
    /\ scan_installed_lines(SplitOn(Strip(labs.stdout), "\n")) = None

CliOutcomes == {[kind |-> "ok", stdout |-> <<>>]} \cup Failures
LabsOutcomes == {[kind |-> "ok", stdout |-> o] : o \in LabsOutputs} \cup Failures
ShowOutcomes == {[kind |-> "ok", stdout |-> o] : o \in ShowOutputs} \cup Failures

\* __init__(fallback_mode, simulate_unavailable)
\* __init__ after the probe returned r: the attributes it set, the commands it
\* ran and the exception that left it
Constructed(r, cli, labs, show) ==
    /\ fallback_mode' = r.self.fallback_mode
    /\ simulate_unavailable' = r.self.simulate_unavailable
    /\ lakebridge_available' = r.self.lakebridge_available
    /\ lakebridge_version' = r.self.lakebridge_version
    /\ compatibility_status' = r.self.compatibility_status
    /\ fallback_reason' = r.self.fallback_reason
    /\ invocations' = r.invocations
    /\ exception' = r.exc
    /\ phase' = IF r.exc = NoException THEN "ready" ELSE "raised"
    /\ result' = NoResult
    /\ written' = <<>>
    /\ probe' = [cli |-> cli.kind, labs |-> labs.kind, show |-> show.kind]
    /\ last_call' = [op |-> "__init__"]

Construct ==
    /\ phase = "new"
    /\ \E fm \in BOOLEAN, su \in BOOLEAN :
         \E cli \in (IF su THEN {NotRun} ELSE CliOutcomes) :
         \E labs \in (IF ReachesLabs(su, cli) THEN LabsOutcomes ELSE {NotRun}) :
           \E show \in (IF ReachesShow(su, cli, labs) THEN ShowOutcomes ELSE {NotRun}) :
             Constructed(check_lakebridge_availability(InitialFields(fm, su), cli, labs, show),
                         cli, labs, show)

(***************************************************************************)
(* Text helpers of the analysis: str.upper, str.count, str.splitlines      *)
(***************************************************************************)
\* str.upper() on one character
UpperChar(c) ==
    CASE c = "a" -> "A" [] c = "b" -> "B" [] c = "c" -> "C" [] c = "d" -> "D" [] c = "e" -> "E" [] c = "f" -> "F"
      [] c = "g" -> "G" [] c = "h" -> "H" [] c = "i" -> "I" [] c = "j" -> "J" [] c = "k" -> "K" [] c = "l" -> "L"
      [] c = "m" -> "M" [] c = "n" -> "N" [] c = "o" -> "O" [] c = "p" -> "P" [] c = "q" -> "Q" [] c = "r" -> "R"
      [] c = "s" -> "S" [] c = "t" -> "T" [] c = "u" -> "U" [] c = "v" -> "V" [] c = "w" -> "W" [] c = "x" -> "X"
      [] c = "y" -> "Y" [] c = "z" -> "Z"
      [] OTHER -> c
Upper(s) == [i \in 1..Len(s) |-> UpperChar(s[i])]

\* the occurrences taken by a scan from the left that steps over each one taken:
\* starts holds the positions where sub occurs
RECURSIVE CountFrom(_, _, _)
CountFrom(starts, width, i) ==
    LET ahead == {j \in starts : j >= i}
    IN  IF ahead = {} THEN 0
        ELSE LET first == CHOOSE j \in ahead : \A k \in ahead : j <= k
             IN  1 + CountFrom(starts, width, first + width)

\* s.count(sub): the non-overlapping occurrences of sub, scanning from the left
Count(s, sub) ==
    CountFrom({i \in 1..(Len(s) - Len(sub) + 1) :
                  s[i] = sub[1] /\ SubSeq(s, i, i + Len(sub) - 1) = sub},
              Len(sub), 1)

\* len(s.splitlines()): every line break ends a line, and so does the end of
\* the text after a last line that has no line break
LineCount(s) ==
    Cardinality({i \in 1..Len(s) : s[i] = "\n"})
    + (IF Len(s) > 0 /\ s[Len(s)] # "\n" THEN 1 ELSE 0)

SUBQUERY == <<"(", "S", "E", "L", "E", "C", "T">>

(***************************************************************************)
(* _estimate_sql_complexity, _assign_migration_wave, _identify_risk_factors *)
(* Scores are exact decimals held in hundredths: 1.0 is 100, 10.0 is 1000.  *)
(***************************************************************************)
\* complexity_factors, in the order of the dict; weights in hundredths
complexity_factors ==
    << [keyword |-> <<"J", "O", "I", "N">>, weight |-> 50],
       [keyword |-> <<"U", "N", "I", "O", "N">>, weight |-> 80],
       [keyword |-> <<"C", "A", "S", "E">>, weight |-> 30],
       [keyword |-> <<"W", "I", "T", "H">>, weight |-> 100],
       [keyword |-> <<"W", "I", "N", "D", "O", "W">>, weight |-> 120],
       [keyword |-> <<"P", "A", "R", "T", "I", "T", "I", "O", "N", " ", "B", "Y">>, weight |-> 100],
       [keyword |-> <<"R", "O", "W", "_", "N", "U", "M", "B", "E", "R">>, weight |-> 80],
       [keyword |-> <<"R", "A", "N", "K">>, weight |-> 80],
       [keyword |-> <<"L", "E", "A", "D">>, weight |-> 90],
       [keyword |-> <<"L", "A", "G">>, weight |-> 90],
       [keyword |-> <<"R", "E", "C", "U", "R", "S", "I", "V", "E">>, weight |-> 200],
       [keyword |-> <<"P", "I", "V", "O", "T">>, weight |-> 150],
       [keyword |-> <<"U", "N", "P", "I", "V", "O", "T">>, weight |-> 150],
       [keyword |-> <<"M", "E", "R", "G", "E">>, weight |-> 180],
       [keyword |-> <<"C", "U", "R", "S", "O", "R">>, weight |-> 250],
       [keyword |-> <<"W", "H", "I", "L", "E">>, weight |-> 150],
       [keyword |-> <<"I", "F">>, weight |-> 40],
       [keyword |-> <<"T", "R", "Y">>, weight |-> 100],
       [keyword |-> <<"C", "A", "T", "C", "H">>, weight |-> 100],
       [keyword |-> <<"R", "A", "I", "S", "E", "R", "R", "O", "R">>, weight |-> 80],
       [keyword |-> <<"D", "Y", "N", "A", "M", "I", "C">>, weight |-> 200],
       [keyword |-> <<"E", "X", "E", "C">>, weight |-> 120],
       [keyword |-> <<"O", "P", "E", "N", "R", "O", "W", "S", "E", "T">>, weight |-> 180],
       [keyword |-> <<"B", "U", "L", "K">>, weight |-> 150] >>

\* the loop over complexity_factors: count = content_upper.count(keyword)
keyword_counts(content_upper) ==
    [k \in 1..Len(complexity_factors) |-> Count(content_upper, complexity_factors[k].keyword)]

\* complexity_score += count * weight, over the factors lo..hi; the sum is
\* taken by halves
RECURSIVE weighted_terms(_, _, _)
weighted_terms(counts, lo, hi) ==
    IF lo > hi THEN 0
    ELSE IF lo = hi THEN counts[lo] * complexity_factors[lo].weight
    ELSE weighted_terms(counts, lo, (lo + hi) \div 2)
         + weighted_terms(counts, (lo + hi) \div 2 + 1, hi)

\* complexity_score += count * weight, over the first n factors
weighted_sum(counts, n) == weighted_terms(counts, 1, n)

\* the score without the cap at 10.0
complexity_of_counts_uncapped(counts, subquery_count, line_count) ==
    100 + weighted_sum(counts, Len(complexity_factors)) + subquery_count * 70
    + (IF line_count > 100 THEN 100 ELSE 0)
    + (IF line_count > 500 THEN 200 ELSE 0)

\* a cap that starts the score again at the base once it passes 10.0
complexity_of_counts_reset_over_cap(counts, subquery_count, line_count) ==
    LET complexity_score ==
            100 + weighted_sum(counts, Len(complexity_factors)) + subquery_count * 70
            + (IF line_count > 100 THEN 100 ELSE 0)
            + (IF line_count > 500 THEN 200 ELSE 0)
    IN  IF complexity_score <= 1000 THEN complexity_score ELSE 100

\* the arithmetic of _estimate_sql_complexity on the counts it took: base 1.0,
\* count * weight per keyword, 0.7 per '(SELECT', 1.0 over 100 lines, 2.0 more
\* over 500 lines, min(complexity_score, 10.0)
complexity_of_counts(counts, subquery_count, line_count) ==
    LET complexity_score ==
            100 + weighted_sum(counts, Len(complexity_factors)) + subquery_count * 70
            + (IF line_count > 100 THEN 100 ELSE 0)
            + (IF line_count > 500 THEN 200 ELSE 0)
    IN  IF complexity_score < 1000 THEN complexity_score ELSE 1000

\* what _estimate_sql_complexity reads off the text: keywords are counted in the
\* upper-cased text, '(SELECT' and the lines in the text as given
scoring_counts(sql_content) ==
    [counts |-> keyword_counts(Upper(sql_content)),
     subquery_count |-> Count(sql_content, SUBQUERY),
     line_count |-> LineCount(sql_content)]

\* the score with the counts it was computed from
scoring_result(c) ==
    [complexity |-> complexity_of_counts(c.counts, c.subquery_count, c.line_count),
     counts |-> c.counts,
     subquery_count |-> c.subquery_count,
     line_count |-> c.line_count]

\* _estimate_sql_complexity(sql_content)
estimate_sql_complexity(sql_content) ==
    scoring_result(scoring_counts(sql_content)).complexity

\* _assign_migration_wave that puts the boundary scores in the upper wave
assign_migration_wave_strict(complexity) ==
    IF complexity < 400 THEN 1
    ELSE IF complexity < 700 THEN 2
    ELSE 3

\* _assign_migration_wave(complexity)
assign_migration_wave(complexity) ==
    IF complexity <= 400 THEN 1
    ELSE IF complexity <= 700 THEN 2
    ELSE 3

\* risk_patterns, in the order of the dict
risk_patterns ==
    << [pattern |-> <<"C", "U", "R", "S", "O", "R">>, description |-> "Uses cursors (procedural logic)"],
       [pattern |-> <<"W", "H", "I", "L", "E">>, description |-> "Contains WHILE loops"],
       [pattern |-> <<"G", "O", "T", "O">>, description |-> "Uses GOTO statements"],
       [pattern |-> <<"R", "A", "I", "S", "E", "R", "R", "O", "R">>, description |-> "Custom error handling"],
       [pattern |-> <<"T", "R", "Y">>, description |-> "Exception handling blocks"],
       [pattern |-> <<"D", "Y", "N", "A", "M", "I", "C">>, description |-> "Dynamic SQL construction"],
       [pattern |-> <<"O", "P", "E", "N", "R", "O", "W", "S", "E", "T">>, description |-> "External data sources"],
       [pattern |-> <<"L", "I", "N", "K", "E", "D">>, description |-> "Linked server dependencies"],
       [pattern |-> <<"B", "U", "L", "K">>, description |-> "Bulk operations"],
       [pattern |-> <<"M", "E", "R", "G", "E">>, description |-> "Complex MERGE statements"],
       [pattern |-> <<"R", "E", "C", "U", "R", "S", "I", "V", "E">>, description |-> "Recursive CTEs"],
       [pattern |-> <<"P", "I", "V", "O", "T">>, description |-> "Pivot operations"],
       [pattern |-> <<"U", "N", "P", "I", "V", "O", "T">>, description |-> "Unpivot operations"] >>

\* the descriptions of the risk_patterns lo..hi found in content_upper, in the
\* order of the dict; the list is put together by halves
RECURSIVE risks_between(_, _, _)
risks_between(content_upper, lo, hi) ==
    IF lo > hi THEN <<>>
    ELSE IF lo = hi
    THEN (IF Count(content_upper, risk_patterns[lo].pattern) > 0
          THEN <<risk_patterns[lo].description>>
          ELSE <<>>)
    ELSE risks_between(content_upper, lo, (lo + hi) \div 2)
         \o risks_between(content_upper, (lo + hi) \div 2 + 1, hi)

\* the descriptions of the first n risk_patterns found in content_upper
pattern_risks(content_upper, n) == risks_between(content_upper, 1, n)

\* _identify_risk_factors that reports the structural risks only
identify_risk_factors_structural_only(sql_content) ==
    (IF Count(sql_content, SUBQUERY) > 5 THEN <<"Heavy subquery usage">> ELSE <<>>)
    \o (IF LineCount(sql_content) > 500 THEN <<"Very large file size">> ELSE <<>>)

\* _identify_risk_factors whose loop ends at the first pattern found
identify_risk_factors_first_match(sql_content) ==
    (IF pattern_risks(Upper(sql_content), Len(risk_patterns)) = <<>> THEN <<>>
     ELSE <<Head(pattern_risks(Upper(sql_content), Len(risk_patterns)))>>)
    \o (IF Count(sql_content, SUBQUERY) > 5 THEN <<"Heavy subquery usage">> ELSE <<>>)
    \o (IF LineCount(sql_content) > 500 THEN <<"Very large file size">> ELSE <<>>)

\* _identify_risk_factors(sql_content)
identify_risk_factors(sql_content) ==
    pattern_risks(Upper(sql_content), Len(risk_patterns))
    \o (IF Count(sql_content, SUBQUERY) > 5 THEN <<"Heavy subquery usage">> ELSE <<>>)
    \o (IF LineCount(sql_content) > 500 THEN <<"Very large file size">> ELSE <<>>)

\* an effort estimate of one hour per point of score
estimated_effort_hours_per_point(complexity) ==
    LET hours == complexity \div 100
    IN  IF hours > 1 THEN hours ELSE 1

\* the hours with the doubled score rounded up instead of truncated
estimated_effort_hours_ceiling(complexity) ==
    LET hours == (complexity * 2 + 99) \div 100
    IN  IF hours > 1 THEN hours ELSE 1

\* max(1, int(complexity * 2)), in hours
estimated_effort_hours(complexity) ==
    LET hours == (complexity * 2) \div 100
    IN  IF hours > 1 THEN hours ELSE 1

(***************************************************************************)
(* Inputs of the operations                                                *)
(***************************************************************************)
\* messages: a fixed text and an interpolated value (f-strings, str(e))
Text(prefix, detail) == <<prefix, detail>>
NonEmptyText(t) == t[1] # "" \/ t[2] # ""

\* str(e) of the exceptions file I/O raises
IoErrors == {"PermissionError", "UnicodeDecodeError"}
ErrStr(kind) ==
    CASE kind = "PermissionError" -> "[Errno 13] Permission denied"
      [] kind = "UnicodeDecodeError" -> "'utf-8' codec can't decode byte"
      [] kind = "TimeoutExpired" -> "Command timed out"
      [] kind = "FileNotFoundError" -> "[Errno 2] No such file or directory: 'databricks'"
      [] OTHER -> "[Errno 13] Permission denied: 'databricks'"

\* the texts of SQL files: a plain query, the recursive CTE of the spec's
\* scenario, a procedural batch, a report query
PlainQuery == <<"S", "E", "L", "E", "C", "T", " ", "*", " ", "F", "R", "O", "M", " ", "t">>
CteQuery == <<"W", "I", "T", "H", " ", "x", " ", "A", "S", " ", "(", ".", ".", ".", ")", " ", "S", "E", "L", "E", "C", "T", " ", ".", ".", ".", " ", "R", "E", "C", "U", "R", "S", "I", "V", "E", " ", ".", ".", ".">>
ProcQuery == <<"D", "E", "C", "L", "A", "R", "E", " ", "c", " ", "C", "U", "R", "S", "O", "R", "\n", "W", "H", "I", "L", "E", " ", "1", "=", "1", " ", "M", "E", "R", "G", "E", " ", "t", " ", "E", "X", "E", "C", "(", "@", "d", "y", "n", "a", "m", "i", "c", ")">>
ReportQuery == <<"s", "e", "l", "e", "c", "t", " ", "a", ",", " ", "r", "a", "n", "k", "(", ")", " ", "o", "v", "e", "r", " ", "(", "p", "a", "r", "t", "i", "t", "i", "o", "n", " ", "b", "y", " ", "b", ")", " ", "f", "r", "o", "m", " ", "t", " ", "j", "o", "i", "n", " ", "u", " ", "u", "n", "i", "o", "n", " ", "s", "e", "l", "e", "c", "t", " ", "1">>

\* a *.sql file glob finds: the directory under the source directory, the file
\* name, what read_text does, and the text it holds
SqlFile(dir, name, read, content) ==
    [dir |-> dir, name |-> name, read |-> read, content |-> content]

\* a source directory: whether it exists and the files glob('**/*.sql') lists
SourceDirs ==
    {[path |-> "missing_dir", exists |-> FALSE, sql_files |-> <<>>]}
    \cup {[path |-> "sql_dir", exists |-> TRUE, sql_files |-> fs] :
            fs \in {<<>>,
                    <<SqlFile("", "a.sql", "ok", <<"x">>)>>,
                    <<SqlFile("", "a.sql", "ok", <<"x">>),
                      SqlFile("sub", "b.sql", "PermissionError", <<>>)>>}}

\* a source file: whether it exists, what read_text does, and the text it holds
SourceFile(path, exists, read, content) ==
    [path |-> path, exists |-> exists, read |-> read, content |-> content]

SourceFiles ==
    {SourceFile("missing.sql", FALSE, "ok", <<>>)}
    \cup {SourceFile("query.sql", TRUE, "ok", <<"x">>)}
    \cup {SourceFile("query.sql", TRUE, e, <<>>) : e \in IoErrors}

\* output_file arguments: None, or <<stem, extension>>
AnalyzeOutputFiles == {None, <<"report", ".json">>, <<"report", ".txt">>}
TranspileOutputFiles == {None, <<"out", ".sql">>}
EndsWith(file, ext) == file[Len(file)] = ext

\* the output file after the tool has run: absent, readable, or raising on open/read/parse
OutputStates == {"absent", "readable", "malformed"}
\* what json.load returns from a readable report the tool wrote: any JSON value
ToolReports == {[success |-> TRUE, method |-> "lakebridge_native"], [total_files |-> 1]}

\* the dialect names callers pass
TSQL == <<"t", "s", "q", "l">>
DATABRICKS == <<"d", "a", "t", "a", "b", "r", "i", "c", "k", "s">>
Dialects == {TSQL, <<"T", "S", "Q", "L">>, DATABRICKS}

ToolOutcomeKinds == {"ok"} \cup FailureKinds
WriteOutcomes == {"ok"} \cup IoErrors

(***************************************************************************)
(* analyze_legacy_sql                                                      *)
(***************************************************************************)
\* what an operation hands back: the fields of self afterwards, the value
\* returned, the commands run, the files written, the exception raised
Outcome(self, res, inv, wr) ==
    [self |-> self, result |-> res, invocations |-> inv, written |-> wr, exc |-> NoException]

\* file_analyses[key] = value on a dict held as the sequence of its items: a
\* key already there keeps its place and takes the new value
DictSet(items, key, value) ==
    IF \E i \in 1..Len(items) : items[i].name = key
    THEN [i \in 1..Len(items) |->
             IF items[i].name = key THEN [name |-> key, analysis |-> value] ELSE items[i]]
    ELSE Append(items, [name |-> key, analysis |-> value])

WINDOW_FUNCTIONS ==
    << <<"R", "O", "W", "_", "N", "U", "M", "B", "E", "R", "(">>,
       <<"R", "A", "N", "K", "(">>,
       <<"D", "E", "N", "S", "E", "_", "R", "A", "N", "K", "(">>,
       <<"L", "A", "G", "(">>,
       <<"L", "E", "A", "D", "(">> >>

\* the entry of file_analyses for a file that was read
analyse_content(content) ==
    LET complexity == estimate_sql_complexity(content)
    IN  [complexity_score |-> complexity,
         line_count |-> LineCount(content),
         contains_cte |-> Contains(Upper(content), <<"W", "I", "T", "H", " ">>),
         contains_window_functions |->
             \E i \in 1..Len(WINDOW_FUNCTIONS) : Contains(Upper(content), WINDOW_FUNCTIONS[i]),
         contains_subqueries |-> Count(content, SUBQUERY) > 0,
         migration_wave |-> assign_migration_wave(complexity),
         estimated_effort_hours |-> estimated_effort_hours(complexity),
         risk_factors |-> identify_risk_factors(content)]

\* the loop over sql_files after its first n files: read_text raising leaves
\* {'error': str(e)} under the file's name and adds nothing to total_complexity
RECURSIVE analyse_files(_, _)
analyse_files(sql_files, n) ==
    IF n = 0 THEN [file_analyses |-> <<>>, total_complexity |-> 0]
    ELSE LET before == analyse_files(sql_files, n - 1)
             sql_file == sql_files[n]
         IN  IF sql_file.read # "ok"
             THEN [before EXCEPT !.file_analyses =
                      DictSet(@, sql_file.name, [error |-> Text("", ErrStr(sql_file.read))])]
             ELSE LET analysis == analyse_content(sql_file.content)
                  IN  [file_analyses |-> DictSet(before.file_analyses, sql_file.name, analysis),
                       total_complexity |-> before.total_complexity + analysis.complexity_score]

\* round(total / n, 2) of a total in hundredths: to the nearest hundredth, a tie
\* going to the even one
round_mean(total, n) ==
    LET q == total \div n
        r == total % n
    IN  IF 2 * r > n THEN q + 1
        ELSE IF 2 * r = n THEN q + (q % 2)
        ELSE q

\* fa.get(field, 0) over the items of file_analyses
GetOr0(analysis, field) == IF field \in DOMAIN analysis THEN analysis[field] ELSE 0

RECURSIVE sum_effort_hours(_)
sum_effort_hours(items) ==
    IF items = <<>> THEN 0
    ELSE GetOr0(Head(items).analysis, "estimated_effort_hours") + sum_effort_hours(Tail(items))

\* [f for f, a in file_analyses.items() if a.get('migration_wave') == wave]
RECURSIVE wave_files(_, _)
wave_files(items, wave) ==
    IF items = <<>> THEN <<>>
    ELSE (IF GetOr0(Head(items).analysis, "migration_wave") = wave
          THEN <<Head(items).name>> ELSE <<>>)
         \o wave_files(Tail(items), wave)

\* _generate_simulated_analysis(source_directory, **kwargs); _fallback_analyze
\* does not pass output_file on, so kwargs holds none and nothing is saved.
\* The timestamp of analysis_metadata is left out.
generate_simulated_analysis(self, source) ==
    IF ~source.exists
    THEN [success |-> FALSE, error |-> Text("Source directory not found", "")]
    ELSE LET sql_files == source.sql_files
             done == analyse_files(sql_files, Len(sql_files))
             file_analyses == done.file_analyses
         IN  [success |-> TRUE,
              method |-> "simulated_fallback",
              analysis_metadata |-> [source_directory |-> source.path,
                                     files_analyzed |-> Len(sql_files),
                                     fallback_reason |-> self.fallback_reason],
              summary_statistics |->
                  [total_files |-> Len(sql_files),
                   average_complexity |->
                       IF Len(sql_files) > 0
                       THEN round_mean(done.total_complexity, Len(sql_files))
                       ELSE 0,
                   total_estimated_effort_hours |-> sum_effort_hours(file_analyses),
                   high_complexity_files |->
                       Cardinality({i \in 1..Len(file_analyses) :
                                       GetOr0(file_analyses[i].analysis, "complexity_score") > 700})],
              file_analysis |-> file_analyses,
              migration_recommendations |->
                  [wave_1_files |-> wave_files(file_analyses, 1),
                   wave_2_files |-> wave_files(file_analyses, 2),
                   wave_3_files |-> wave_files(file_analyses, 3)],
              workshop_note |-> "Results generated by fallback analyzer for educational purposes"]

\* _fallback_analyze: the import of .sql_analyzer raises ImportError (the
\* repository holds no such module), so the simulated analysis is returned
fallback_analyze(self, source, output_file) ==
    Outcome(self, generate_simulated_analysis(self, source), <<>>, <<>>)

AnalyzeCmd == "databricks labs lakebridge analyze"

\* _lakebridge_analyze that records a failed native call as unavailability
lakebridge_analyze_sticky_failure(self, source, output_file, tool, out_state, report) ==
    IF tool = "ok"
    THEN Outcome(self, [success |-> TRUE, stdout |-> "stdout", method |-> "lakebridge_native"],
                 <<AnalyzeCmd>>, <<>>)
    ELSE LET down == [self EXCEPT !.lakebridge_available = FALSE]
             fb == fallback_analyze(down, source, output_file)
         IN  [fb EXCEPT !.invocations = <<AnalyzeCmd>>]

\* _lakebridge_analyze that runs the tool a second time before it falls back
lakebridge_analyze_retry_once(self, source, output_file, tool, out_state, report) ==
    IF tool = "ok"
    THEN IF output_file # None /\ out_state = "readable"
         THEN IF EndsWith(output_file, ".json")
              THEN Outcome(self, report, <<AnalyzeCmd>>, <<>>)
              ELSE Outcome(self, [raw_output |-> "raw_output", success |-> TRUE],
                           <<AnalyzeCmd>>, <<>>)
         ELSE Outcome(self, [success |-> TRUE, stdout |-> "stdout", method |-> "lakebridge_native"],
                      <<AnalyzeCmd>>, <<>>)
    ELSE LET fb == fallback_analyze(self, source, output_file)
         IN  [fb EXCEPT !.invocations = <<AnalyzeCmd, AnalyzeCmd>> \o fb.invocations]

\* _lakebridge_analyze(source_directory, output_file, **kwargs) when the tool
\* ends as `tool`, leaves the output file in out_state and wrote `report` to it
lakebridge_analyze(self, source, output_file, tool, out_state, report) ==
    IF tool = "ok"
    THEN IF output_file # None /\ out_state = "readable"
         THEN IF EndsWith(output_file, ".json")
              THEN Outcome(self, report, <<AnalyzeCmd>>, <<>>)
              ELSE Outcome(self, [raw_output |-> "raw_output", success |-> TRUE],
                           <<AnalyzeCmd>>, <<>>)
         ELSE \* no output file asked for, none there, or reading it raised (logged)
              Outcome(self, [success |-> TRUE, stdout |-> "stdout", method |-> "lakebridge_native"],
                      <<AnalyzeCmd>>, <<>>)
    ELSE \* non-zero exit, or except Exception
         LET fb == fallback_analyze(self, source, output_file)
         IN  [fb EXCEPT !.invocations = <<AnalyzeCmd>> \o fb.invocations]

analyze_legacy_sql(self, source, output_file, tool, out_state, report) ==
    IF self.lakebridge_available /\ ~self.fallback_mode
    THEN lakebridge_analyze(self, source, output_file, tool, out_state, report)
    ELSE fallback_analyze(self, source, output_file)

(***************************************************************************)
(* _apply_basic_transformations: re.sub with re.IGNORECASE on the text      *)
(***************************************************************************)
Digits == {"0", "1", "2", "3", "4", "5", "6", "7", "8", "9"}
\* \w, \s
WordChars ==
    {LowerAlpha[i] : i \in 1..Len(LowerAlpha)} \cup {UpperAlpha[i] : i \in 1..Len(UpperAlpha)}
    \cup Digits \cup {"_"}
IsWordChar(c) == c \in WordChars
Spaces == {" ", "\n", "\t"}

\* \b before position i of s: a word character on exactly one side
WordBoundary(s, i) ==
    (i > 1 /\ i - 1 <= Len(s) /\ IsWordChar(s[i - 1]))
    # (i >= 1 /\ i <= Len(s) /\ IsWordChar(s[i]))

\* the end of the longest run of characters of the set chars from position i
\* on; i - 1 when there is none
RECURSIVE RunEnd(_, _, _)
RunEnd(s, i, chars) ==
    IF i <= Len(s) /\ s[i] \in chars THEN RunEnd(s, i + 1, chars) ELSE i - 1

\* where a match of \bTOP\s+(\d+)\b that starts at i ends; 0 when none does.
\* Backtracking finds no other match: the digits must end at a \b.
TopMatchEnd(s, i) ==
    IF ~(i + 2 <= Len(s) /\ Upper(SubSeq(s, i, i + 2)) = <<"T", "O", "P">> /\ WordBoundary(s, i))
    THEN 0
    ELSE LET spaces == RunEnd(s, i + 3, Spaces)
             digits == RunEnd(s, spaces + 1, Digits)
         IN  IF spaces >= i + 3 /\ digits >= spaces + 1 /\ WordBoundary(s, digits + 1)
             THEN digits ELSE 0

\* re.sub(r'\bTOP\s+(\d+)\b', r'', s, flags=re.IGNORECASE) from position i on
\* (SubTopAt: with the next match at j)
RECURSIVE SubTopFrom(_, _)
SubTopAt(s, i, j) == SubSeq(s, i, j - 1) \o SubTopFrom(s, TopMatchEnd(s, j) + 1)
SubTopFrom(s, i) ==
    LET starts == {j \in i..Len(s) : TopMatchEnd(s, j) > 0}
    IN  IF starts = {} THEN SubSeq(s, i, Len(s))
        ELSE SubTopAt(s, i, Leftmost(starts))

\* a pattern \b followed by the literal text pat (given in upper case) matches at i
LiteralMatchAt(s, i, pat) ==
    /\ i + Len(pat) - 1 <= Len(s)
    /\ UpperChar(s[i]) = pat[1]
    /\ Upper(SubSeq(s, i, i + Len(pat) - 1)) = pat
    /\ WordBoundary(s, i)

\* re.sub(r'\b<pat>', repl, s, flags=re.IGNORECASE) from position i on
\* (SubLiteralAt: with the next match at j)
RECURSIVE SubLiteralFrom(_, _, _, _)
SubLiteralAt(s, i, j, pat, repl) ==
    SubSeq(s, i, j - 1) \o repl \o SubLiteralFrom(s, j + Len(pat), pat, repl)
SubLiteralFrom(s, i, pat, repl) ==
    LET starts == {j \in i..Len(s) : LiteralMatchAt(s, j, pat)}
    IN  IF starts = {} THEN SubSeq(s, i, Len(s))
        ELSE SubLiteralAt(s, i, Leftmost(starts), pat, repl)

\* where a match of \[([^\]]+)\] that starts at i ends: at the first ']' after
\* i, with at least one character in between; 0 when none does
BracketMatchEnd(s, i) ==
    IF ~(i <= Len(s) /\ s[i] = "[") THEN 0
    ELSE LET closing == {j \in (i + 1)..Len(s) : s[j] = "]"}
         IN  IF closing = {} THEN 0
             ELSE LET first == CHOOSE j \in closing : \A k \in closing : j <= k
                  IN  IF first > i + 1 THEN first ELSE 0

\* re.sub(r'\[([^\]]+)\]', r'\1', s) from position i on
\* (SubBracketsAt: with the next match at j)
RECURSIVE SubBracketsFrom(_, _)
SubBracketsAt(s, i, j) ==
    SubSeq(s, i, j - 1) \o SubSeq(s, j + 1, BracketMatchEnd(s, j) - 1)
    \o SubBracketsFrom(s, BracketMatchEnd(s, j) + 1)
SubBracketsFrom(s, i) ==
    LET starts == {j \in i..Len(s) : BracketMatchEnd(s, j) > 0}
    IN  IF starts = {} THEN SubSeq(s, i, Len(s))
        ELSE SubBracketsAt(s, i, Leftmost(starts))

\* the patterns of the transformations dict that are \b and a literal text, in
\* the order of the dict, with their replacements
literal_transformations ==
    << [pattern |-> <<"G", "E", "T", "D", "A", "T", "E", "(", ")">>, replacement |-> <<"C", "U", "R", "R", "E", "N", "T", "_", "T", "I", "M", "E", "S", "T", "A", "M", "P", "(", ")">>],
       [pattern |-> <<"I", "S", "N", "U", "L", "L", "(">>, replacement |-> <<"C", "O", "A", "L", "E", "S", "C", "E", "(">>],
       [pattern |-> <<"L", "E", "N", "(">>, replacement |-> <<"L", "E", "N", "G", "T", "H", "(">>],
       [pattern |-> <<"C", "H", "A", "R", "I", "N", "D", "E", "X", "(">>, replacement |-> <<"P", "O", "S", "I", "T", "I", "O", "N", "(">>],
       [pattern |-> <<"S", "U", "B", "S", "T", "R", "I", "N", "G", "(">>, replacement |-> <<"S", "U", "B", "S", "T", "R", "(">>],
       [pattern |-> <<"D", "A", "T", "E", "D", "I", "F", "F", "(">>, replacement |-> <<"D", "A", "T", "E", "D", "I", "F", "F", "(">>],
       [pattern |-> <<"C", "O", "N", "V", "E", "R", "T", "(">>, replacement |-> <<"C", "A", "S", "T", "(">>],
       [pattern |-> <<"[", "D", "B", "O", "]", ".">>, replacement |-> <<>>] >>

LIMIT_SUFFIX == <<"\n", "L", "I", "M", "I", "T", " ", "1", "0", "0", " ", " ", "-", "-", " ", "C", "o", "n", "v", "e", "r", "t", "e", "d", " ", "f", "r", "o", "m", " ", "T", "O", "P", " ", "c", "l", "a", "u", "s", "e">>

\* the loop over the transformations dict after its first n literal patterns
RECURSIVE apply_literals(_, _)
apply_literals(transformed, n) ==
    IF n = 0 THEN transformed
    ELSE SubLiteralFrom(apply_literals(transformed, n - 1), 1,
                        literal_transformations[n].pattern,
                        literal_transformations[n].replacement)

\* the TOP step with a re.sub that stops after the first match (count=1)
top_to_limit_first_match_only(sql) ==
    LET starts == {i \in 1..Len(sql) : TopMatchEnd(sql, i) > 0}
        cut == IF starts = {} THEN sql
               ELSE LET first == CHOOSE i \in starts : \A k \in starts : i <= k
                    IN  SubSeq(sql, 1, first - 1) \o SubSeq(sql, TopMatchEnd(sql, first) + 1, Len(sql))
    IN  IF Contains(Upper(sql), <<"T", "O", "P">>) THEN cut \o LIMIT_SUFFIX ELSE cut

\* the TOP step: the TOP clauses taken out, and the LIMIT line added when the
\* letters TOP occur in the text as given
top_to_limit(sql) ==
    IF Contains(Upper(sql), <<"T", "O", "P">>)
    THEN SubTopFrom(sql, 1) \o LIMIT_SUFFIX
    ELSE SubTopFrom(sql, 1)

\* the rewriting of a tsql text for databricks: the TOP step, then the
\* transformations dict in its order
rewrite_tsql(sql) ==
    SubBracketsFrom(apply_literals(top_to_limit(sql), Len(literal_transformations)), 1)

\* the header comment: fixed texts around the upper-cased dialect names
header(source_dialect, target_dialect) ==
    <<"-- Transpiled from ">> \o Upper(source_dialect) \o <<" to ">> \o Upper(target_dialect)
    \o <<"\n-- Generated by Lakebridge Workshop Fallback Transpiler\n",
         "-- Note: This is a simplified transformation for educational purposes\n",
         "-- Production transpilation requires Lakebridge or equivalent tools\n\n">>

\* _apply_basic_transformations(sql, source_dialect, target_dialect)
apply_basic_transformations(sql, source_dialect, target_dialect) ==
    header(source_dialect, target_dialect)
    \o (IF Lower(source_dialect) = TSQL /\ Lower(target_dialect) = DATABRICKS
        THEN rewrite_tsql(sql)
        ELSE sql)


(***************************************************************************)
(* transpile_sql                                                           *)
(***************************************************************************)
TranspileCmd == "databricks labs lakebridge transpile"

\* _generate_simulated_transpilation whose read_text is outside the try block
generate_simulated_transpilation_unguarded_read(self, source, source_dialect, target_dialect, output_file, write) ==
    IF ~source.exists
    THEN Outcome(self, [success |-> FALSE, error |-> Text("Source file not found: ", source.path)],
                 <<>>, <<>>)
    ELSE IF source.read # "ok"
    THEN [Outcome(self, NoResult, <<>>, <<>>) EXCEPT !.exc = source.read]
    ELSE IF output_file # None /\ write # "ok"
    THEN Outcome(self, [success |-> FALSE, error |-> Text("", ErrStr(write))], <<>>, <<>>)
    ELSE Outcome(self, [success |-> TRUE, method |-> "simulated_fallback"], <<>>,
                 IF output_file # None THEN <<output_file>> ELSE <<>>)

\* _generate_simulated_transpilation(source_file, source_dialect, target_dialect, output_file)
\* when writing the output does `write`
generate_simulated_transpilation(self, source, source_dialect, target_dialect, output_file, write) ==
    IF ~source.exists
    THEN Outcome(self, [success |-> FALSE, error |-> Text("Source file not found: ", source.path)],
                 <<>>, <<>>)
    ELSE IF source.read # "ok"
    THEN \* except Exception as e: str(e)
         Outcome(self, [success |-> FALSE, error |-> Text("", ErrStr(source.read))], <<>>, <<>>)
    ELSE IF output_file # None /\ write # "ok"
    THEN Outcome(self, [success |-> FALSE, error |-> Text("", ErrStr(write))], <<>>, <<>>)
    ELSE Outcome(self,
                 [success |-> TRUE,
                  transpiled_sql |->
                      apply_basic_transformations(source.content, source_dialect, target_dialect),
                  method |-> "simulated_fallback",
                  source_file |-> source.path,
                  source_dialect |-> source_dialect,
                  target_dialect |-> target_dialect,
                  output_file |-> output_file,
                  transformations_applied |-> <<"TOP -> LIMIT conversion",
                                                "GETDATE() -> CURRENT_TIMESTAMP() conversion",
                                                "ISNULL -> COALESCE conversion",
                                                "Basic syntax adaptations">>,
                  workshop_note |-> "Transpilation generated by fallback implementation for educational purposes"],
                 <<>>,
                 IF output_file # None THEN <<output_file>> ELSE <<>>)

\* _fallback_transpile: the import of .sql_transpiler raises ImportError
fallback_transpile(self, source, source_dialect, target_dialect, output_file, write) ==
    generate_simulated_transpilation(self, source, source_dialect, target_dialect, output_file, write)

\* _lakebridge_transpile when the tool ends as `tool` and leaves the output file in out_state
lakebridge_transpile(self, source, source_dialect, target_dialect, output_file, write, tool, out_state) ==
    IF tool = "ok"
    THEN IF output_file # None /\ out_state = "readable"
         THEN Outcome(self,
                      [success |-> TRUE, transpiled_sql |-> "output file text",
                       method |-> "lakebridge_native", source_file |-> source.path,
                       output_file |-> output_file],
                      <<TranspileCmd>>, <<>>)
         ELSE Outcome(self,
                      [success |-> TRUE, transpiled_sql |-> "stdout",
                       method |-> "lakebridge_native", source_file |-> source.path],
                      <<TranspileCmd>>, <<>>)
    ELSE LET fb == fallback_transpile(self, source, source_dialect, target_dialect, output_file, write)
         IN  [fb EXCEPT !.invocations = <<TranspileCmd>> \o fb.invocations]

transpile_sql(self, source, source_dialect, target_dialect, output_file, write, tool, out_state) ==
    IF self.lakebridge_available /\ ~self.fallback_mode
    THEN lakebridge_transpile(self, source, source_dialect, target_dialect, output_file, write, tool, out_state)
    ELSE fallback_transpile(self, source, source_dialect, target_dialect, output_file, write)

(***************************************************************************)
(* test_connection, get_status                                             *)
(***************************************************************************)
ConnectionCmd == "databricks workspace list /"

\* test_connection that probes the workspace whatever the mode
test_connection_always_probes(self, tool) ==
    IF tool = "ok"
    THEN Outcome(self,
                 [success |-> TRUE, connection_status |-> "connected",
                  lakebridge_version |-> self.lakebridge_version,
                  message |-> "Successfully connected to Databricks workspace"],
                 <<ConnectionCmd>>, <<>>)
    ELSE Outcome(self,
                 [success |-> FALSE, connection_status |-> "lakebridge_unavailable",
                  fallback_active |-> TRUE,
                  message |-> "Lakebridge not available - using fallback mode"],
                 <<ConnectionCmd>>, <<>>)

\* test_connection(self) when the workspace listing ends as `tool`
test_connection(self, tool) ==
    IF ~self.lakebridge_available
    THEN Outcome(self,
                 [success |-> FALSE, connection_status |-> "lakebridge_unavailable",
                  fallback_active |-> TRUE,
                  message |-> "Lakebridge not available - using fallback mode"],
                 <<>>, <<>>)
    ELSE IF tool = "ok"
    THEN Outcome(self,
                 [success |-> TRUE, connection_status |-> "connected",
                  lakebridge_version |-> self.lakebridge_version,
                  message |-> "Successfully connected to Databricks workspace"],
                 <<ConnectionCmd>>, <<>>)
    ELSE IF tool = "nonzero"
    THEN Outcome(self,
                 [success |-> FALSE, connection_status |-> "authentication_failed",
                  error |-> Text("", "stderr"),
                  message |-> "Databricks authentication failed"],
                 <<ConnectionCmd>>, <<>>)
    ELSE Outcome(self,
                 [success |-> FALSE, connection_status |-> "connection_error",
                  error |-> Text("", ErrStr(tool)),
                  message |-> "Could not test Databricks connection"],
                 <<ConnectionCmd>>, <<>>)

\* _get_recommendations: the substring tests on fallback_reason.lower(), by the
\* fixed text each reason starts with
get_recommendations(self) ==
    (IF self.lakebridge_available THEN <<>>
     ELSE IF self.fallback_reason[1] = "Databricks CLI unavailable: "
     THEN <<"Install Databricks CLI: pip install databricks-cli",
            "Configure authentication: databricks configure --token">>
     ELSE IF self.fallback_reason[1] = "Lakebridge not installed via databricks labs"
     THEN <<"Install Lakebridge: databricks labs install lakebridge">>
     ELSE IF self.fallback_reason[1] = "Version compatibility: "
     THEN <<"Update Lakebridge to supported version (0.3.0)",
            "Check COMPATIBILITY.md for version requirements">>
     ELSE <<>>)
    \o (IF self.fallback_mode
        THEN <<"Workshop will use simulated results for learning",
               "All concepts and workflows remain valid">>
        ELSE <<>>)

get_status(self) ==
    Outcome(self,
            [lakebridge_available |-> self.lakebridge_available,
             lakebridge_version |-> self.lakebridge_version,
             compatibility_status |-> self.compatibility_status,
             fallback_mode |-> self.fallback_mode,
             fallback_reason |-> self.fallback_reason,
             supported_versions |-> SUPPORTED_VERSIONS,
             recommendations |-> get_recommendations(self)],
            <<>>, <<>>)

(***************************************************************************)
(* The adapter as a state machine: one action per public operation         *)
(***************************************************************************)
Self ==
    [fallback_mode |-> fallback_mode,
     simulate_unavailable |-> simulate_unavailable,
     lakebridge_available |-> lakebridge_available,
     lakebridge_version |-> lakebridge_version,
     compatibility_status |-> compatibility_status,
     fallback_reason |-> fallback_reason]

\* the state after an operation that handed back r
Return(r, call) ==
    /\ fallback_mode' = r.self.fallback_mode
    /\ simulate_unavailable' = r.self.simulate_unavailable
    /\ lakebridge_available' = r.self.lakebridge_available
    /\ lakebridge_version' = r.self.lakebridge_version
    /\ compatibility_status' = r.self.compatibility_status
    /\ fallback_reason' = r.self.fallback_reason
    /\ result' = r.result
    /\ invocations' = r.invocations
    /\ written' = r.written
    /\ exception' = r.exc
    /\ last_call' = call
    /\ UNCHANGED <<phase, probe>>

Native == lakebridge_available /\ ~fallback_mode

\* the tool outcomes an operation can meet: none when it does not run the tool
ToolChoices(runs) == IF runs THEN ToolOutcomeKinds ELSE {"not_run"}
\* the states the output file can be in after the tool has run
OutputChoices(tool, output_file) ==
    IF tool = "ok" /\ output_file # None THEN OutputStates ELSE {"absent"}

\* a call of analyze_legacy_sql on one of the directories dirs
AnalyzeFrom(dirs) ==
    \E source \in dirs, output_file \in AnalyzeOutputFiles, tool \in ToolChoices(Native) :
      \E out_state \in OutputChoices(tool, output_file) :
        \E report \in (IF out_state = "readable" THEN ToolReports ELSE {NoResult}) :
          Return(analyze_legacy_sql(Self, source, output_file, tool, out_state, report),
                 [op |-> "analyze_legacy_sql", source |-> source, output_file |-> output_file,
                  tool |-> tool, out_state |-> out_state])

AnalyzeLegacySql ==
    /\ phase = "ready"
    /\ AnalyzeFrom(SourceDirs)

\* a call of transpile_sql on one of the files, with one of the output_file arguments
TranspileFrom(files, output_files) ==
    \E source \in files, sd \in Dialects, td \in Dialects,
       output_file \in output_files, tool \in ToolChoices(Native) :
      \E out_state \in OutputChoices(tool, output_file),
         write \in (IF output_file # None THEN WriteOutcomes ELSE {"ok"}) :
        Return(transpile_sql(Self, source, sd, td, output_file, write, tool, out_state),
               [op |-> "transpile_sql", source |-> source, output_file |-> output_file,
                tool |-> tool, out_state |-> out_state, write |-> write])

TranspileSql ==
    /\ phase = "ready"
    /\ TranspileFrom(SourceFiles, TranspileOutputFiles)

TestConnection ==
    /\ phase = "ready"
    /\ \E tool \in ToolChoices(lakebridge_available) :
         Return(test_connection(Self, tool), [op |-> "test_connection", tool |-> tool])

GetStatus ==
    /\ phase = "ready"
    /\ Return(get_status(Self), [op |-> "get_status"])

Init ==
    /\ phase = "new"
    /\ fallback_mode = FALSE
    /\ simulate_unavailable = FALSE
    /\ lakebridge_available = FALSE
    /\ lakebridge_version = None
    /\ compatibility_status = "unknown"
    /\ fallback_reason = None
    /\ probe = [cli |-> "not_run", labs |-> "not_run", show |-> "not_run"]
    /\ last_call = [op |-> "none"]
    /\ invocations = <<>>
    /\ result = NoResult
    /\ written = <<>>
    /\ exception = NoException

Next ==
    \/ Construct
    \/ AnalyzeLegacySql
    \/ TranspileSql
    \/ TestConnection
    \/ GetStatus

Spec == Init /\ [][Next]_vars

(***************************************************************************)
(* The version classifier on its own: every string over the version        *)
(* alphabet up to MaxVerLen, None and the placeholder 'unknown'            *)
(***************************************************************************)
VersionAlphabet == DigitChars \cup {".", "v", "x"}
VersionInputs == SeqsUpTo(VersionAlphabet, MaxVerLen) \cup {None, UNKNOWN}

InitVersion ==
    /\ phase = "classify"
    /\ lakebridge_version \in VersionInputs
    /\ fallback_mode = FALSE
    /\ simulate_unavailable = FALSE
    /\ lakebridge_available = FALSE
    /\ compatibility_status = "unknown"
    /\ fallback_reason = None
    /\ probe = [cli |-> "not_run", labs |-> "not_run", show |-> "not_run"]
    /\ last_call = [op |-> "none"]
    /\ invocations = <<>>
    /\ result = NoResult
    /\ written = <<>>
    /\ exception = NoException

\* self.compatibility_status = self._check_version_compatibility()
ClassifyVersion ==
    /\ phase = "classify"
    /\ LET r == check_version_compatibility(lakebridge_version)
       IN  /\ compatibility_status' = r.val
           /\ exception' = r.exc
    /\ phase' = "classified"
    /\ last_call' = [op |-> "_check_version_compatibility"]
    /\ UNCHANGED <<fallback_mode, simulate_unavailable, lakebridge_available,
                   lakebridge_version, fallback_reason, probe, invocations, result, written>>

NextVersion == ClassifyVersion

SpecVersion == InitVersion /\ [][NextVersion]_vars

(***************************************************************************)
(* The scoring functions on their own: texts of up to MaxScoreItems items  *)
(* followed by line breaks, and every score in hundredths up to 12.0       *)
(***************************************************************************)
ScoreItems ==
    { <<"R", "E", "C", "U", "R", "S", "I", "V", "E">>,
      <<"C", "U", "R", "S", "O", "R">>,
      <<"U", "n", "p", "i", "v", "o", "t">>,
      <<"(", "S", "E", "L", "E", "C", "T">>,
      <<"(", "S", "E", "L", "E", "C", "T", "(", "S", "E", "L", "E", "C", "T", "(", "S", "E", "L", "E", "C", "T">> }

\* the numbers of line breaks after the items: around the 100 and 500 line marks
TrailingLineBreaks == {0, 100, 101, 500, 501}
LineBreaks(n) == [i \in 1..n |-> "\n"]

ScoreTexts ==
    {JoinItems(items) \o LineBreaks(n) :
        items \in SeqsUpTo(ScoreItems, MaxScoreItems), n \in TrailingLineBreaks}

WaveInputs == 0..1200

InitScoring ==
    /\ phase = "called"
    /\ last_call \in
          {[op |-> "_estimate_sql_complexity", sql_content |-> t] : t \in ScoreTexts}
          \cup {[op |-> "_identify_risk_factors", sql_content |-> t] : t \in ScoreTexts}
          \cup {[op |-> "_assign_migration_wave", complexity |-> c] : c \in WaveInputs}
    /\ fallback_mode = FALSE
    /\ simulate_unavailable = FALSE
    /\ lakebridge_available = FALSE
    /\ lakebridge_version = None
    /\ compatibility_status = "unknown"
    /\ fallback_reason = None
    /\ probe = [cli |-> "not_run", labs |-> "not_run", show |-> "not_run"]
    /\ invocations = <<>>
    /\ result = NoResult
    /\ written = <<>>
    /\ exception = NoException

\* the value a scoring function returns, with the counts it was computed from
Returned(res) ==
    /\ phase' = "returned"
    /\ result' = res
    /\ UNCHANGED <<fallback_mode, simulate_unavailable, lakebridge_available,
                   lakebridge_version, compatibility_status, fallback_reason,
                   probe, last_call, invocations, written, exception>>

EstimateSqlComplexity ==
    /\ phase = "called"
    /\ last_call.op = "_estimate_sql_complexity"
    /\ Returned(scoring_result(scoring_counts(last_call.sql_content)))

IdentifyRiskFactors ==
    /\ phase = "called"
    /\ last_call.op = "_identify_risk_factors"
    /\ Returned([risks |-> identify_risk_factors(last_call.sql_content)])

AssignMigrationWave ==
    /\ phase = "called"
    /\ last_call.op = "_assign_migration_wave"
    /\ Returned([wave |-> assign_migration_wave(last_call.complexity)])

NextScoring ==
    \/ EstimateSqlComplexity
    \/ IdentifyRiskFactors
    \/ AssignMigrationWave

SpecScoring == InitScoring /\ [][NextScoring]_vars

(***************************************************************************)
(* The fallback session: an adapter constructed with simulate_unavailable   *)
(* and its first call, over directories of up to MaxSqlFiles files          *)
(***************************************************************************)
\* the places glob finds files at: two of them hold files of the same name
FilePlaces == {<<"", "a.sql">>, <<"sub", "a.sql">>, <<"", "b.sql">>}
\* what a file holds, or the exception reading it raises
FileStates ==
    {[read |-> "ok", content |-> c] : c \in {PlainQuery, CteQuery, ProcQuery, ReportQuery}}
    \cup {[read |-> e, content |-> <<>>] : e \in IoErrors}

\* the listings of glob: files at different places, in any order
Listings ==
    {fs \in SeqsUpTo({SqlFile(p[1], p[2], st.read, st.content) : p \in FilePlaces, st \in FileStates},
                     MaxSqlFiles) :
        \A i, j \in 1..Len(fs) : i # j => <<fs[i].dir, fs[i].name>> # <<fs[j].dir, fs[j].name>>}

AnalysisDirs ==
    {[path |-> "missing_dir", exists |-> FALSE, sql_files |-> <<>>]}
    \cup {[path |-> "sql_dir", exists |-> TRUE, sql_files |-> fs] : fs \in Listings}

\* LakebridgeAdapter(fallback_mode=fm, simulate_unavailable=True)
ConstructSimulated ==
    /\ phase = "new"
    /\ \E fm \in BOOLEAN :
         Constructed(check_lakebridge_availability(InitialFields(fm, TRUE), NotRun, NotRun, NotRun),
                     NotRun, NotRun, NotRun)

\* the first call of the session is analyze_legacy_sql
AnalyzeDirectory ==
    /\ phase = "ready"
    /\ last_call.op = "__init__"
    /\ AnalyzeFrom(AnalysisDirs)

\* the items of the texts that are transpiled
SqlItems ==
    { <<"T", "O", "P">>,
      <<"1", "0">>,
      <<"t", "o", "p", " ", "5">>,
      <<"s", "t", "o", "p">>,
      <<"I", "S", "N", "U", "L", "L", "(", "a", ",", "g", "e", "t", "d", "a", "t", "e", "(", ")", ")">>,
      <<"[", "d", "b", "o", "]", ".", "[", "t", "]">> }

TranspileFiles ==
    {SourceFile("missing.sql", FALSE, "ok", <<>>)}
    \cup {SourceFile("query.sql", TRUE, "ok", JoinItems(items)) :
            items \in SeqsUpTo(SqlItems, MaxSqlItems)}
    \cup {SourceFile("query.sql", TRUE, e, <<>>) : e \in IoErrors}

\* the first call of the session is transpile_sql, with no output file
TranspileFile ==
    /\ phase = "ready"
    /\ last_call.op = "__init__"
    /\ TranspileFrom(TranspileFiles, {None})

NextFallback ==
    \/ ConstructSimulated
    \/ AnalyzeDirectory
    \/ TranspileFile

SpecFallback == Init /\ [][NextFallback]_vars

(***************************************************************************)
(* workshop_utils.create_migration_waves, over mappings of up to           *)
(* MaxWaveFiles entries                                                    *)
(***************************************************************************)
WAVE_1 == "Wave 1 - Quick Wins"
WAVE_2 == "Wave 2 - Standard Migration"
WAVE_3 == "Wave 3 - Complex Components"

\* info.get(key, default)
InfoGet(info, key, default) == IF key \in DOMAIN info THEN info[key] ELSE default

\* the wave of one entry, with `complexity <= 6` for the first wave
wave_of_info_inclusive(info) ==
    LET risk == InfoGet(info, "risk_level", "Medium")
        complexity == InfoGet(info, "complexity_score", InfoGet(info, "complexity", 500))
    IN  IF risk = "Low" /\ complexity <= 600 THEN WAVE_1
        ELSE IF risk = "Medium" \/ (risk = "Low" /\ complexity >= 600) THEN WAVE_2
        ELSE WAVE_3

\* the body of the loop: the wave one entry is appended to (complexities in
\* hundredths: 6 is 600, the default 5.0 is 500)
wave_of_info(info) ==
    LET risk == InfoGet(info, "risk_level", "Medium")
        complexity == InfoGet(info, "complexity_score", InfoGet(info, "complexity", 500))
    IN  IF risk = "Low" /\ complexity < 600 THEN WAVE_1
        ELSE IF risk = "Medium" \/ (risk = "Low" /\ complexity >= 600) THEN WAVE_2
        ELSE WAVE_3

\* create_migration_waves(files_data): files_data is the sequence of the items
\* of the dict, in its order
RECURSIVE create_migration_waves(_)
create_migration_waves(files_data) ==
    IF files_data = <<>>
    THEN (WAVE_1 :> <<>>) @@ (WAVE_2 :> <<>>) @@ (WAVE_3 :> <<>>)
    ELSE LET n == Len(files_data)
         IN  [create_migration_waves(SubSeq(files_data, 1, n - 1))
                 EXCEPT ![wave_of_info(files_data[n].info)] = Append(@, files_data[n].filename)]

\* the entries of files_data: each field present or not
NoFields == [key \in {} |-> 0]
RiskLevels == {"Low", "Medium", "High"}
Infos ==
    {risk @@ score @@ complexity :
        risk \in {NoFields} \cup {("risk_level" :> r) : r \in RiskLevels},
        score \in {NoFields} \cup {("complexity_score" :> c) : c \in {300, 600}},
        complexity \in {NoFields} \cup {("complexity" :> c) : c \in {800}}}
WaveFileNames == {"a.sql", "b.sql", "c.sql"}
FilesData ==
    {fd \in SeqsUpTo({[filename |-> f, info |-> i] : f \in WaveFileNames, i \in Infos}, MaxWaveFiles) :
        \A i, j \in 1..Len(fd) : i # j => fd[i].filename # fd[j].filename}

InitWaves ==
    /\ phase = "called"
    /\ last_call \in {[op |-> "create_migration_waves", files_data |-> fd] : fd \in FilesData}
    /\ fallback_mode = FALSE
    /\ simulate_unavailable = FALSE
    /\ lakebridge_available = FALSE
    /\ lakebridge_version = None
    /\ compatibility_status = "unknown"
    /\ fallback_reason = None
    /\ probe = [cli |-> "not_run", labs |-> "not_run", show |-> "not_run"]
    /\ invocations = <<>>
    /\ result = NoResult
    /\ written = <<>>
    /\ exception = NoException

CreateMigrationWaves ==
    /\ phase = "called"
    /\ last_call.op = "create_migration_waves"
    /\ Returned(create_migration_waves(last_call.files_data))

NextWaves == CreateMigrationWaves

SpecWaves == InitWaves /\ [][NextWaves]_vars

(***************************************************************************)
(* _extract_lakebridge_version on its own: the outputs of `labs installed` *)
(* that name lakebridge, with every outcome of the show query              *)
(***************************************************************************)
InitExtract ==
    /\ phase = "called"
    /\ last_call \in
          {[op |-> "_extract_lakebridge_version", labs_output |-> o, show |-> s] :
              o \in {o \in LabsOutputs : Contains(Lower(o), LAKEBRIDGE)}, s \in ShowOutcomes}
    /\ fallback_mode = FALSE
    /\ simulate_unavailable = FALSE
    /\ lakebridge_available = FALSE
    /\ lakebridge_version = None
    /\ compatibility_status = "unknown"
    /\ fallback_reason = None
    /\ probe = [cli |-> "ok", labs |-> "ok", show |-> "not_run"]
    /\ invocations = <<>>
    /\ result = NoResult
    /\ written = <<>>
    /\ exception = NoException

ExtractLakebridgeVersion ==
    /\ phase = "called"
    /\ last_call.op = "_extract_lakebridge_version"
    /\ Returned(extract_lakebridge_version(last_call.labs_output, last_call.show))

NextExtract == ExtractLakebridgeVersion

SpecExtract == InitExtract /\ [][NextExtract]_vars

(***************************************************************************)
(* The adapter step by step: every operation is a call that is issued,     *)
(* waits for each subprocess.run it makes (each has a timeout, so each     *)
(* ends), computes in Python and hands its value back.  The methods are    *)
(* synchronous and the class starts no thread, so the next call is issued  *)
(* only after the previous one has returned.                               *)
(*   phase "probing": __init__ waits for a probe command                   *)
(*   phase "native":  a method waits for the tool                          *)
(*   phase "running": a method that started no command computes its answer *)
(***************************************************************************)
\* the number of the call: 0 for the construction
SeqOf(call) == IF "seq" \in DOMAIN call THEN call.seq ELSE 0

\* the adapter has one more call to take
CanIssue == phase = "ready" /\ SeqOf(last_call) < MaxCalls

\* a method was entered with `call`; cmds is the command it starts, if any
Entered(call, cmds) ==
    /\ phase' = IF cmds = <<>> THEN "running" ELSE "native"
    /\ last_call' = call
    /\ invocations' = cmds
    /\ result' = NoResult
    /\ written' = <<>>
    /\ exception' = NoException
    /\ UNCHANGED <<self_vars, probe>>

\* the method hands back r
Completed(r, call) ==
    /\ fallback_mode' = r.self.fallback_mode
    /\ simulate_unavailable' = r.self.simulate_unavailable
    /\ lakebridge_available' = r.self.lakebridge_available
    /\ lakebridge_version' = r.self.lakebridge_version
    /\ compatibility_status' = r.self.compatibility_status
    /\ fallback_reason' = r.self.fallback_reason
    /\ result' = r.result
    /\ invocations' = r.invocations
    /\ written' = r.written
    /\ exception' = r.exc
    /\ last_call' = call
    /\ phase' = IF r.exc = NoException THEN "ready" ELSE "raised"
    /\ UNCHANGED probe

\* __init__ is entered: with simulate_unavailable it returns without a probe,
\* otherwise it starts `databricks --version`
StartConstruct ==
    /\ phase = "new"
    /\ \E fm \in BOOLEAN, su \in BOOLEAN :
         IF su
         THEN Constructed(check_lakebridge_availability(InitialFields(fm, TRUE), NotRun, NotRun, NotRun),
                          NotRun, NotRun, NotRun)
         ELSE /\ phase' = "probing"
              /\ fallback_mode' = fm
              /\ simulate_unavailable' = FALSE
              /\ invocations' = <<CliCmd>>
              /\ last_call' = [op |-> "__init__", cli |-> NotRun, labs |-> NotRun]
              /\ UNCHANGED <<lakebridge_available, lakebridge_version, compatibility_status,
                             fallback_reason, probe, result, written, exception>>

\* __init__ goes on to its next probe command
NextProbe(call, cmd) ==
    /\ last_call' = call
    /\ invocations' = Append(invocations, cmd)
    /\ UNCHANGED <<phase, self_vars, probe, result, written, exception>>

\* __init__ has the outcomes of all the probe commands it runs
ProbeDone(cli, labs, show) ==
    Constructed(check_lakebridge_availability(InitialFields(fallback_mode, FALSE), cli, labs, show),
                cli, labs, show)

\* `databricks --version` ends (timeout=10)
CliProbeFinishes ==
    /\ phase = "probing" /\ Len(invocations) = 1
    /\ \E cli \in CliOutcomes :
         IF ReachesLabs(FALSE, cli)
         THEN NextProbe([last_call EXCEPT !.cli = cli], LabsCmd)
         ELSE ProbeDone(cli, NotRun, NotRun)

\* what `databricks labs installed` prints in these runs: lakebridge with its
\* version, lakebridge without one, another project
InstalledOutputs ==
    {JoinItems(items) : items \in {<<LAKEBRIDGE, <<"0", ".", "3", ".", "0">>>>,
                                   <<LAKEBRIDGE>>,
                                   <<<<"x", ".", "y">>>>}}
InstalledOutcomes == {[kind |-> "ok", stdout |-> o] : o \in InstalledOutputs} \cup Failures

\* `databricks labs installed` ends (timeout=30)
LabsProbeFinishes ==
    /\ phase = "probing" /\ Len(invocations) = 2
    /\ \E labs \in InstalledOutcomes :
         IF ReachesShow(FALSE, last_call.cli, labs)
         THEN NextProbe([last_call EXCEPT !.labs = labs], ShowCmd)
         ELSE ProbeDone(last_call.cli, labs, NotRun)

\* `databricks labs show lakebridge` ends (timeout=15)
ShowProbeFinishes ==
    /\ phase = "probing" /\ Len(invocations) = 3
    /\ \E show \in ShowOutcomes : ProbeDone(last_call.cli, last_call.labs, show)

\* the call number that a method entered now takes
NextSeq == SeqOf(last_call) + 1

\* analyze_legacy_sql is called: it starts the tool, or goes to its fallback
IssueAnalyze ==
    /\ CanIssue
    /\ \E source \in SourceDirs, output_file \in AnalyzeOutputFiles :
         Entered([op |-> "analyze_legacy_sql", seq |-> NextSeq, source |-> source,
                  output_file |-> output_file, tool |-> "not_run", out_state |-> "absent"],
                 IF Native THEN <<AnalyzeCmd>> ELSE <<>>)

\* transpile_sql is called: it starts the tool, or goes to its fallback
IssueTranspile ==
    /\ CanIssue
    /\ \E source \in SourceFiles, output_file \in TranspileOutputFiles :
         Entered([op |-> "transpile_sql", seq |-> NextSeq, source |-> source,
                  output_file |-> output_file, tool |-> "not_run", out_state |-> "absent",
                  write |-> "ok"],
                 IF Native THEN <<TranspileCmd>> ELSE <<>>)

\* test_connection is called: it lists the workspace, or has its fixed answer
IssueTestConnection ==
    /\ CanIssue
    /\ Entered([op |-> "test_connection", seq |-> NextSeq, tool |-> "not_run"],
               IF lakebridge_available THEN <<ConnectionCmd>> ELSE <<>>)

\* analyze_legacy_sql returns: after the analyze command ended (timeout=300),
\* with the report it wrote or, when it failed, with the fallback analysis
\* computed then; or, when no command was started, with the fallback analysis
AnalyzeReturns ==
    /\ phase \in {"native", "running"} /\ last_call.op = "analyze_legacy_sql"
    /\ \E tool \in ToolChoices(phase = "native") :
         \E out_state \in OutputChoices(tool, last_call.output_file) :
           \E report \in (IF out_state = "readable" THEN ToolReports ELSE {NoResult}) :
             Completed(analyze_legacy_sql(Self, last_call.source, last_call.output_file,
                                          tool, out_state, report),
                       [last_call EXCEPT !.tool = tool, !.out_state = out_state])

\* transpile_sql returns: after the transpile command ended (timeout=120), or
\* from the fallback when no command was started
TranspileReturns ==
    /\ phase \in {"native", "running"} /\ last_call.op = "transpile_sql"
    /\ \E tool \in ToolChoices(phase = "native") :
         \E out_state \in OutputChoices(tool, last_call.output_file),
            write \in (IF last_call.output_file # None /\ tool # "ok"
                       THEN WriteOutcomes ELSE {"ok"}) :
           Completed(transpile_sql(Self, last_call.source, TSQL, DATABRICKS,
                                   last_call.output_file, write, tool, out_state),
                     [last_call EXCEPT !.tool = tool, !.out_state = out_state, !.write = write])

\* test_connection returns: after the workspace listing ended (timeout=30), or
\* at once when lakebridge is not available
TestConnectionReturns ==
    /\ phase \in {"native", "running"} /\ last_call.op = "test_connection"
    /\ \E tool \in ToolChoices(phase = "native") :
         Completed(test_connection(Self, tool), [last_call EXCEPT !.tool = tool])

NextCalls ==
    \/ StartConstruct
    \/ CliProbeFinishes
    \/ LabsProbeFinishes
    \/ ShowProbeFinishes
    \/ IssueAnalyze
    \/ IssueTranspile
    \/ IssueTestConnection
    \/ AnalyzeReturns
    \/ TranspileReturns
    \/ TestConnectionReturns

\* the step the one thread of the caller is in: a command it waits for ends,
\* or the computation it is in ends
CallGoesOn ==
    \/ CliProbeFinishes
    \/ LabsProbeFinishes
    \/ ShowProbeFinishes
    \/ AnalyzeReturns
    \/ TranspileReturns
    \/ TestConnectionReturns

\* a call is in progress: the states in which CallGoesOn can happen
InACall == phase \in {"probing", "native", "running"}

\* every subprocess.run is given a timeout, so a command that is waited for
\* ends (it returns, or TimeoutExpired is raised), and the computations are
\* loops over their input.  This is weak fairness of CallGoesOn, with the
\* states that enable it written out
FairCalls == []<>(~InACall) \/ []<><<CallGoesOn>>_vars

SpecCalls == Init /\ [][NextCalls]_vars /\ FairCalls

(***************************************************************************)
(* Properties                                                              *)
(***************************************************************************)
Called(op) == phase = "ready" /\ last_call.op = op
HasField(r, f) == f \in DOMAIN r
\* the result is tagged as produced by the fallback path / by the native path
TaggedFallback(r) == HasField(r, "method") /\ r.method = "simulated_fallback"
TaggedNative(r) == HasField(r, "method") /\ r.method = "lakebridge_native"
\* a structured failure: success = false and a non-empty error string
StructuredFailure(r) ==
    /\ HasField(r, "success") /\ r.success = FALSE
    /\ HasField(r, "error") /\ NonEmptyText(r.error)
\* the failures of an invocation that the claims name: not found, non-zero exit, timeout
NamedFailures == {"nonzero", "FileNotFoundError", "TimeoutExpired"}

\* C1: once __init__ has returned, no call of analyze_legacy_sql, transpile_sql,
\* test_connection or get_status changes lakebridge_available, lakebridge_version,
\* compatibility_status, fallback_reason, fallback_mode (or simulate_unavailable),
\* whatever the external tool does.
C1_SessionStateFixed == [][phase = "ready" => self_vars' = self_vars]_vars

\* C1 witness: a native adapter whose analyze call met a timeout of the tool
C1_Witness ==
    /\ Called("analyze_legacy_sql")
    /\ last_call.tool = "TimeoutExpired"
    /\ lakebridge_available

\* C2: after construction the adapter is native exactly when the detected version
\* classifies as compatible and the caller forced no fallback; the recorded
\* status of a native adapter is 'compatible'.
C2_NativeIffCompatible ==
    phase = "ready" =>
        /\ lakebridge_available <=>
              /\ check_version_compatibility(lakebridge_version).val = "compatible"
              /\ ~fallback_mode
              /\ ~simulate_unavailable
        /\ lakebridge_available => compatibility_status = "compatible"
        /\ (probe.cli # "ok" \/ probe.labs # "ok") => ~lakebridge_available

\* C2 witness: a compatible version was detected but the caller forced fallback
C2_Witness ==
    /\ Called("__init__")
    /\ compatibility_status = "compatible"
    /\ fallback_mode
    /\ ~lakebridge_available

\* C3 (as claimed): when the external invocations fail, the status is never
\* 'compatible' and every analyze_legacy_sql / transpile_sql result, for a
\* missing path too, carries the fallback method tag.
C3_AlwaysFailingToolTagsFallback ==
    (phase = "ready" /\ probe.cli \in NamedFailures) =>
        /\ compatibility_status # "compatible"
        /\ last_call.op \in {"analyze_legacy_sql", "transpile_sql"} => TaggedFallback(result)

\* the call was made in native mode and the tool invocation failed
NativeCallFailed ==
    /\ phase = "ready"
    /\ last_call.op \in {"analyze_legacy_sql", "transpile_sql"}
    /\ lakebridge_available /\ ~fallback_mode
    /\ last_call.tool \in FailureKinds

\* C4 (as claimed): a native call whose tool invocation fails returns a result
\* tagged as fallback, raises nothing, and ran the tool exactly once.
C4_NativeFailureReturnsTaggedFallback ==
    NativeCallFailed =>
        /\ exception = NoException
        /\ TaggedFallback(result)
        /\ Len(invocations) = 1

\* the tool exited 0 but the output file asked for is malformed or missing
NativeAnalyzeBadOutput ==
    /\ Called("analyze_legacy_sql")
    /\ lakebridge_available /\ ~fallback_mode
    /\ last_call.tool = "ok"
    /\ last_call.output_file # None
    /\ last_call.out_state \in {"malformed", "absent"}

\* C5 (as claimed): exit code 0 with a malformed or missing output file degrades
\* the analyze call to a fallback-tagged result, not a native-tagged success.
C5_BadOutputDegradesToFallback ==
    NativeAnalyzeBadOutput => (TaggedFallback(result) /\ ~TaggedNative(result))

\* the status test_connection returns in fallback mode
FallbackActiveStatus ==
    [success |-> FALSE, connection_status |-> "lakebridge_unavailable",
     fallback_active |-> TRUE,
     message |-> "Lakebridge not available - using fallback mode"]

\* C6: in fallback mode test_connection returns the fixed fallback-active status
\* and runs no external process; it runs one only in native mode.
C6_TestConnectionFallbackFixed ==
    Called("test_connection") =>
        /\ ~lakebridge_available => (result = FallbackActiveStatus /\ invocations = <<>>)
        /\ invocations # <<>> => (lakebridge_available /\ ~fallback_mode)
        /\ exception = NoException

\* C6 witness: test_connection on an adapter that fell back on a too-old version
C6_Witness ==
    /\ Called("test_connection")
    /\ ~lakebridge_available
    /\ compatibility_status = TooOld

\* C7: a failed top-level CLI check (not found, non-zero exit, timeout) ends the
\* probe after that one invocation, in fallback mode with a non-empty reason
\* and no exception; so does a timeout of the extension-installed check.
C7_ProbeFailureShortCircuits ==
    /\ (last_call.op = "__init__" /\ probe.cli \in NamedFailures) =>
          /\ phase = "ready" /\ exception = NoException
          /\ invocations = <<CliCmd>>
          /\ probe.labs = "not_run" /\ probe.show = "not_run"
          /\ ~lakebridge_available
          /\ fallback_reason # None /\ NonEmptyText(fallback_reason)
    /\ (last_call.op = "__init__" /\ probe.cli = "ok" /\ probe.labs = "TimeoutExpired") =>
          /\ phase = "ready" /\ exception = NoException
          /\ invocations = <<CliCmd, LabsCmd>>
          /\ ~lakebridge_available
          /\ fallback_reason # None /\ NonEmptyText(fallback_reason)

\* C7 witness: the constructor returned after `databricks --version` timed out
C7_Witness ==
    /\ Called("__init__")
    /\ probe.cli = "TimeoutExpired"
    /\ fallback_reason = Reason("Databricks CLI unavailable: ", "TimeoutExpired")

\* a dotted numeric version (with the optional leading v): its numeric parts
IsNumericVersion(v) ==
    /\ v # None /\ v # UNKNOWN /\ v # <<>>
    /\ LET u == IF Head(v) = "v" THEN Tail(v) ELSE v
       IN  /\ u # <<>>
           /\ u[1] \in DigitChars /\ u[Len(u)] \in DigitChars
           /\ \A i \in 1..Len(u) : u[i] \in DigitChars \cup {"."}
           /\ \A i \in 1..(Len(u) - 1) : ~(u[i] = "." /\ u[i + 1] = ".")
NumericParts(v) ==
    LET parts == SplitOn(IF Head(v) = "v" THEN Tail(v) ELSE v, ".")
    IN  [i \in 1..Len(parts) |-> ToNat(parts[i])]
\* the part at position i, 0 when the version has fewer parts
PartAt(v, i) == IF i <= Len(NumericParts(v)) THEN NumericParts(v)[i] ELSE 0

\* the spec's name of a compatibility status the code stores
CompatibilityOf(status) ==
    CASE status \in {"unknown", "unknown_version"} -> "unknown"
      [] status = TooOld -> "too_old"
      [] status = TooNew -> "too_new"
      [] status = "compatible" -> "compatible"
      [] status = "parse_error" -> "parse_error"
      [] OTHER -> "none of the five"

\* C8: against minimum 0.1.0 and maximum 2.0.0 a numeric version below 0.1.0
\* (major 0, minor 0) is too_old, one with major >= 2 (2.0.0 included) is
\* too_new, every other one is compatible; 0.3.0 and 0.1.0 are compatible,
\* 0.0.5 is too_old, 2.0.0 is too_new.
C8_VersionRangeClassification ==
    phase = "classified" =>
        /\ IsNumericVersion(lakebridge_version) =>
              CompatibilityOf(compatibility_status) =
                  IF PartAt(lakebridge_version, 1) = 0 /\ PartAt(lakebridge_version, 2) = 0
                  THEN "too_old"
                  ELSE IF PartAt(lakebridge_version, 1) >= 2 THEN "too_new"
                  ELSE "compatible"
        /\ lakebridge_version = <<"0", ".", "3", ".", "0">> => compatibility_status = "compatible"
        /\ lakebridge_version = <<"0", ".", "0", ".", "5">> => compatibility_status = TooOld
        /\ lakebridge_version = <<"2", ".", "0", ".", "0">> => compatibility_status = TooNew
        /\ lakebridge_version = <<"0", ".", "1", ".", "0">> => compatibility_status = "compatible"

\* C8 witness: the maximum itself was classified too_new
C8_Witness ==
    /\ phase = "classified"
    /\ lakebridge_version = <<"2", ".", "0", ".", "0">>
    /\ compatibility_status = TooNew

\* C9: for every detected version the classification returns without raising one
\* of the five statuses: unknown for an absent version, parse_error for a
\* reported but malformed one, and too_old, too_new or compatible otherwise.
C9_ClassificationTotal ==
    phase = "classified" =>
        /\ exception = NoException
        /\ CompatibilityOf(compatibility_status) \in
              {"unknown", "too_old", "too_new", "compatible", "parse_error"}
        /\ lakebridge_version \in {None, <<>>, UNKNOWN} =>
              CompatibilityOf(compatibility_status) = "unknown"
        /\ (lakebridge_version \notin {None, <<>>, UNKNOWN} /\ ~IsNumericVersion(lakebridge_version)) =>
              CompatibilityOf(compatibility_status) = "parse_error"
        /\ IsNumericVersion(lakebridge_version) =>
              CompatibilityOf(compatibility_status) \in {"too_old", "too_new", "compatible"}

\* C9 witness: a reported but malformed version was classified parse_error
C9_Witness ==
    /\ phase = "classified"
    /\ lakebridge_version = <<"1", ".", "x">>
    /\ compatibility_status = "parse_error"
    /\ exception = NoException

\* the call was served by the fallback path: the adapter is in fallback mode, or
\* the native invocation failed
ServedByFallback ==
    ~(lakebridge_available /\ ~fallback_mode) \/ last_call.tool \in FailureKinds

\* the fallback input failures: source directory or file missing, reading the
\* source file fails, writing the requested output file fails
FallbackInputFailure ==
    \/ /\ Called("analyze_legacy_sql") /\ ServedByFallback
       /\ ~last_call.source.exists
    \/ /\ Called("transpile_sql") /\ ServedByFallback
       /\ \/ ~last_call.source.exists
          \/ last_call.source.read # "ok"
          \/ last_call.output_file # None /\ last_call.write # "ok"

\* C10: on the fallback path a missing source directory or file, and an error
\* while reading or writing during fallback transpilation, yields success =
\* false with a non-empty error string, no exception, and the adapter's fields
\* as they were before the call.
C10_FallbackInputFailureStructured ==
    [][FallbackInputFailure' =>
          /\ StructuredFailure(result')
          /\ exception' = NoException
          /\ self_vars' = self_vars]_vars

\* C10 witness: fallback transpilation of a file that cannot be read
C10_Witness ==
    /\ Called("transpile_sql")
    /\ ~lakebridge_available
    /\ last_call.source.read = "PermissionError"
    /\ result.success = FALSE

\* the canonical shape of a result: a boolean success and a method naming the path
CanonicalShape(r) ==
    /\ HasField(r, "success") /\ r.success \in BOOLEAN
    /\ HasField(r, "method") /\ r.method \in {"lakebridge_native", "simulated_fallback"}

\* C11 (as claimed): every value analyze_legacy_sql and transpile_sql return,
\* on the native and on the fallback path, has a boolean success field and a
\* method field naming the path that produced it.
C11_EveryResultCanonical ==
    (phase = "ready" /\ last_call.op \in {"analyze_legacy_sql", "transpile_sql"}
       /\ exception = NoException)
        => CanonicalShape(result)

\* a scoring function has returned
ReturnedFrom(op) == phase = "returned" /\ last_call.op = op

\* C12: for every text, the empty one and texts with many keywords and lines
\* included, the score of _estimate_sql_complexity lies in [1.0, 10.0].
C12_ScoreWithinBounds ==
    ReturnedFrom("_estimate_sql_complexity") =>
        (result.complexity >= 100 /\ result.complexity <= 1000)

\* C12 witness: a text of over 500 lines with three cursors, whose score is capped
C12_Witness ==
    /\ ReturnedFrom("_estimate_sql_complexity")
    /\ result.line_count > 500
    /\ result.counts[15] = 3
    /\ result.complexity = 1000

\* the text followed by one more occurrence of a keyword, set off by a space
WithOneMore(sql_content, keyword) == sql_content \o <<" ">> \o keyword

\* C13: one more occurrence of any weighted keyword, the other counts and the
\* line count unchanged, never lowers the score, the capped score included; and
\* a text on one line scores no less with a keyword added to it.
C13_ScoreMonotonicInKeywords ==
    ReturnedFrom("_estimate_sql_complexity") =>
        \A k \in 1..Len(complexity_factors) :
            /\ complexity_of_counts([result.counts EXCEPT ![k] = @ + 1],
                                    result.subquery_count, result.line_count)
                  >= result.complexity
            /\ result.line_count <= 1 =>
                  estimate_sql_complexity(WithOneMore(last_call.sql_content,
                                                      complexity_factors[k].keyword))
                     >= result.complexity

\* C13 witness: a score just under the cap, which one more cursor takes over it
C13_Witness ==
    /\ ReturnedFrom("_estimate_sql_complexity")
    /\ result.complexity < 1000
    /\ result.complexity + complexity_factors[15].weight > 1000

\* C14: score <= 4.0 is wave 1, 4.0 < score <= 7.0 is wave 2, score > 7.0 is
\* wave 3; the boundaries 4.0 and 7.0 fall in the lower wave; every score gets
\* exactly one wave of 1, 2, 3.
C14_WaveThresholds ==
    ReturnedFrom("_assign_migration_wave") =>
        LET score == last_call.complexity
            wave == result.wave
        IN  /\ wave \in {1, 2, 3}
            /\ score <= 400 <=> wave = 1
            /\ (400 < score /\ score <= 700) <=> wave = 2
            /\ score > 700 <=> wave = 3

\* C14 witness: the boundary score 7.0 was put in wave 2
C14_Witness ==
    /\ ReturnedFrom("_assign_migration_wave")
    /\ last_call.complexity = 700
    /\ result.wave = 2

\* a fallback analysis has returned its report on an existing directory
FallbackAnalysisDone ==
    /\ Called("analyze_legacy_sql")
    /\ ~lakebridge_available
    /\ last_call.source.exists

\* the files listed, the items of file_analysis, the wave lists of the result
ListedFiles == last_call.source.sql_files
Units == result.file_analysis
WaveLists ==
    << result.migration_recommendations.wave_1_files,
       result.migration_recommendations.wave_2_files,
       result.migration_recommendations.wave_3_files >>
InSeq(x, seq) == \E i \in 1..Len(seq) : seq[i] = x

\* the text holds no weighted keyword, no risk keyword, no subquery opening,
\* and not more than 100 lines
MatchesNothing(content) ==
    /\ \A k \in 1..Len(complexity_factors) :
          ~Contains(Upper(content), complexity_factors[k].keyword)
    /\ \A k \in 1..Len(risk_patterns) : ~Contains(Upper(content), risk_patterns[k].pattern)
    /\ ~Contains(content, SUBQUERY)
    /\ LineCount(content) <= 100

RecursiveCteFile(i) ==
    /\ ListedFiles[i].read = "ok"
    /\ Contains(Upper(ListedFiles[i].content), <<"W", "I", "T", "H">>)
    /\ Contains(Upper(ListedFiles[i].content), <<"R", "E", "C", "U", "R", "S", "I", "V", "E">>)
    /\ \A j \in 1..Len(ListedFiles) : j # i => ListedFiles[j].name # ListedFiles[i].name

\* the analysis recorded under a file name
UnitOf(name) == Units[CHOOSE u \in 1..Len(Units) : Units[u].name = name].analysis

\* C16 (as claimed): a file with a WITH and a RECURSIVE token gets a score of at
\* least 4.0, a migration wave of at least 2, and the recursive-CTE risk factor.
C16_RecursiveCteWaveAtLeast2 ==
    FallbackAnalysisDone =>
        \A i \in 1..Len(ListedFiles) :
            RecursiveCteFile(i) =>
                LET a == UnitOf(ListedFiles[i].name)
                IN  /\ a.complexity_score >= 400
                    /\ a.migration_wave >= 2
                    /\ InSeq("Recursive CTEs", a.risk_factors)

\* C16 (amended): a file with a WITH and a RECURSIVE token gets a score of at
\* least 4.0 and the recursive-CTE risk factor; its wave is 1 when the score is
\* exactly 4.0 (the two tokens alone) and at least 2 only when the score is
\* above 4.0.
C16_RecursiveCteWaveByThreshold ==
    FallbackAnalysisDone =>
        \A i \in 1..Len(ListedFiles) :
            RecursiveCteFile(i) =>
                LET a == UnitOf(ListedFiles[i].name)
                IN  /\ a.complexity_score >= 400
                    /\ a.complexity_score = 400 => a.migration_wave = 1
                    /\ a.complexity_score > 400 => a.migration_wave >= 2
                    /\ InSeq("Recursive CTEs", a.risk_factors)

\* C16 witness: the file "WITH x AS (...) SELECT ... RECURSIVE ..." scored 4.0
\* and was put in wave 1
C16_Witness ==
    /\ FallbackAnalysisDone
    /\ Len(ListedFiles) = 1
    /\ RecursiveCteFile(1)
    /\ ListedFiles[1].content = CteQuery
    /\ Units[1].analysis.complexity_score = 400
    /\ Units[1].analysis.migration_wave = 1

\* in how many of the wave lists, and how often, a name appears
Appearances(name) ==
    Cardinality({<<w, i>> \in (1..3) \X (1..MaxSqlFiles + 1) :
                    i <= Len(WaveLists[w]) /\ WaveLists[w][i] = name})

\* C17 (as claimed): in a successful fallback analysis every entry of
\* file_analysis, a file whose read failed included, is in exactly one of the
\* three wave lists, and every name in a wave list is an entry.
C17_WavesPartitionUnits ==
    FallbackAnalysisDone =>
        /\ \A u \in 1..Len(Units) : Appearances(Units[u].name) = 1
        /\ \A w \in 1..3 : \A i \in 1..Len(WaveLists[w]) :
              \E u \in 1..Len(Units) : Units[u].name = WaveLists[w][i]

\* the sum of a field over the units, a unit without the field counting 0
RECURSIVE SumOver(_, _)
SumOver(units, field) ==
    IF units = <<>> THEN 0
    ELSE GetOr0(Head(units).analysis, field) + SumOver(Tail(units), field)

\* C18 (as claimed): in a successful fallback analysis the summary follows from
\* the entries of file_analysis alone: total_files is their number,
\* average_complexity the rounded mean of their scores, total effort the sum of
\* their hours, high_complexity_files the number scoring above 7.0; also with
\* two files of one name in different subdirectories and with unreadable files.
C18_SummaryDerivedFromUnits ==
    FallbackAnalysisDone =>
        LET summary == result.summary_statistics
        IN  /\ summary.total_files = Len(Units)
            /\ summary.average_complexity =
                  (IF Len(Units) > 0
                   THEN round_mean(SumOver(Units, "complexity_score"), Len(Units))
                   ELSE 0)
            /\ summary.total_estimated_effort_hours = SumOver(Units, "estimated_effort_hours")
            /\ summary.high_complexity_files =
                  Cardinality({u \in 1..Len(Units) :
                                  GetOr0(Units[u].analysis, "complexity_score") > 700})

\* a fallback transpilation has returned success
FallbackTranspileDone ==
    /\ Called("transpile_sql")
    /\ ~lakebridge_available
    /\ HasField(result, "success") /\ result.success

\* the dialect pair of the result is the one the rewriting is written for
RewrittenPair ==
    Lower(result.source_dialect) = TSQL /\ Lower(result.target_dialect) = DATABRICKS

\* C19 (as claimed): fallback transpilation with a dialect pair other than
\* tsql / databricks returns the input text exactly and an empty list of
\* applied transformations.
C19_OtherPairIsIdentity ==
    (FallbackTranspileDone /\ ~RewrittenPair) =>
        /\ result.transpiled_sql = last_call.source.content
        /\ result.transformations_applied = <<>>

\* the step of the rewriting changed the text it was applied to: the TOP step,
\* the n-th pattern of the dict, one of the patterns after ISNULL
TopStepChanged ==
    RewrittenPair /\ top_to_limit(last_call.source.content) # last_call.source.content
LiteralStepChanged(n) ==
    /\ RewrittenPair
    /\ apply_literals(top_to_limit(last_call.source.content), n)
          # apply_literals(top_to_limit(last_call.source.content), n - 1)
OtherStepChanged ==
    /\ RewrittenPair
    /\ \/ \E n \in 3..Len(literal_transformations) : LiteralStepChanged(n)
       \/ rewrite_tsql(last_call.source.content)
             # apply_literals(top_to_limit(last_call.source.content),
                              Len(literal_transformations))

\* C20 (as claimed): transformations_applied names exactly the rules that
\* changed the text of this input: a rule that changed it is in the list, a rule
\* that matched nothing is not.
C20_AppliedListsChangingRules ==
    FallbackTranspileDone =>
        LET applied == result.transformations_applied
        IN  /\ InSeq("TOP -> LIMIT conversion", applied) <=> TopStepChanged
            /\ InSeq("GETDATE() -> CURRENT_TIMESTAMP() conversion", applied)
                  <=> LiteralStepChanged(1)
            /\ InSeq("ISNULL -> COALESCE conversion", applied) <=> LiteralStepChanged(2)
            /\ InSeq("Basic syntax adaptations", applied) <=> OtherStepChanged

\* the text that was transpiled
SourceSql == last_call.source.content

\* a row-limiting clause of s from position i to position e: the word TOP in any
\* case, white space, and a number that ends where a word ends
IsTopClause(s, i, e) ==
    /\ i + 4 <= e /\ e <= Len(s)
    /\ Upper(SubSeq(s, i, i + 2)) = <<"T", "O", "P">>
    /\ ~(i > 1 /\ IsWordChar(s[i - 1]))
    /\ \E m \in (i + 3)..(e - 1) :
         /\ \A k \in (i + 3)..m : s[k] \in Spaces
         /\ \A k \in (m + 1)..e : s[k] \in Digits
    /\ ~(e < Len(s) /\ IsWordChar(s[e + 1]))
TopClauses(s) ==
    UNION {{<<i, e>> : e \in {e \in (i + 4)..Len(s) : IsTopClause(s, i, e)}} :
              i \in {i \in 1..Len(s) : s[i] \in {"T", "t"}}}

\* the characters of s at the positions of keep, in their order
RECURSIVE Picked(_, _, _, _)
Picked(s, keep, lo, hi) ==
    IF lo > hi THEN <<>>
    ELSE IF lo = hi THEN (IF lo \in keep THEN <<s[lo]>> ELSE <<>>)
    ELSE Picked(s, keep, lo, (lo + hi) \div 2) \o Picked(s, keep, (lo + hi) \div 2 + 1, hi)
\* the positions of s outside the clauses
Outside(s, clauses) == {k \in 1..Len(s) : \A c \in clauses : k < c[1] \/ k > c[2]}
\* s without its row-limiting clauses
WithoutTopClauses(s) == Picked(s, Outside(s, TopClauses(s)), 1, Len(s))

\* the rules of the transformations dict, applied to a text
DictRules(s) == SubBracketsFrom(apply_literals(s, Len(literal_transformations)), 1)
\* t ends with the text suffix
EndsWithText(t, suffix) ==
    Len(t) >= Len(suffix) /\ SubSeq(t, Len(t) - Len(suffix) + 1, Len(t)) = suffix

\* C21: fallback transpilation from tsql to databricks of a text with one or
\* more row-limiting clauses (TOP and a number) takes every one of these clauses
\* out of the text (what is returned is the header, then the text without them
\* under the rules of the dict), ends it with the LIMIT line and its comment,
\* holds that line exactly once, and returns a non-empty list of applied
\* transformations.
C21_TopClausesBecomeOneLimit ==
    (FallbackTranspileDone /\ RewrittenPair /\ TopClauses(SourceSql) # {}) =>
        /\ result.transpiled_sql
              = header(result.source_dialect, result.target_dialect)
                \o DictRules(WithoutTopClauses(SourceSql) \o LIMIT_SUFFIX)
        /\ EndsWithText(result.transpiled_sql, LIMIT_SUFFIX)
        /\ Count(result.transpiled_sql, <<"L", "I", "M", "I", "T">>) = 1
        /\ result.transformations_applied # <<>>

\* a text with two row-limiting clauses and another word was transpiled
C21_Witness ==
    /\ FallbackTranspileDone /\ RewrittenPair
    /\ Cardinality(TopClauses(SourceSql)) = 2
    /\ Len(WithoutTopClauses(SourceSql)) > 1
    /\ result.source_dialect # TSQL

\* the names held by the list of a wave, with repetitions
TimesIn(name, files) == Cardinality({i \in 1..Len(files) : files[i] = name})
\* the complexity of an entry that has one: complexity_score, or else complexity
HasComplexity(info) == HasField(info, "complexity_score") \/ HasField(info, "complexity")
ComplexityOf(info) ==
    IF HasField(info, "complexity_score") THEN info.complexity_score ELSE info.complexity

StartsOf(s, sub) ==
    {i \in 1..(Len(s) - Len(sub) + 1) : s[i] = sub[1] /\ SubSeq(s, i, i + Len(sub) - 1) = sub}
\* the occurrence at position i of the k-th keyword lies within an occurrence
\* of another keyword of the table
WithinOtherKeyword(s, k, i) ==
    \E j \in 1..Len(complexity_factors) :
        /\ j # k
        /\ \E p \in StartsOf(s, complexity_factors[j].keyword) :
              /\ p <= i
              /\ i + Len(complexity_factors[k].keyword) <= p + Len(complexity_factors[j].keyword)
\* the occurrences of the k-th keyword that are occurrences of that keyword only
OwnOccurrences(s, k) ==
    Cardinality({i \in StartsOf(s, complexity_factors[k].keyword) : ~WithinOtherKeyword(s, k, i)})
\* the sum over the first n keywords of the table of occurrences x weight
RECURSIVE ReferenceTerms(_, _, _)
ReferenceTerms(s, lo, hi) ==
    IF lo > hi THEN 0
    ELSE IF lo = hi THEN OwnOccurrences(s, lo) * complexity_factors[lo].weight
    ELSE ReferenceTerms(s, lo, (lo + hi) \div 2) + ReferenceTerms(s, (lo + hi) \div 2 + 1, hi)
ReferenceSum(s, n) == ReferenceTerms(s, 1, n)
\* L: 0.0 up to 100 lines, 1.0 up to 500 lines, 3.0 above
LinePenalty(lines) == IF lines > 500 THEN 300 ELSE IF lines > 100 THEN 100 ELSE 0
ReferenceScore(sql_content) ==
    100 + ReferenceSum(Upper(sql_content), Len(complexity_factors))
        + 70 * Cardinality(StartsOf(sql_content, SUBQUERY))
        + LinePenalty(LineCount(sql_content))

\* C23 (as claimed): the score is min(10.0, 1.0 + the sum over the keyword table
\* of occurrences x weight + 0.7 x the number of "(SELECT" + L), where an
\* occurrence of a keyword adds the weight of that keyword and of no other.
C23_ScoreIsReferenceSum ==
    ReturnedFrom("_estimate_sql_complexity") =>
        result.complexity = (IF ReferenceScore(last_call.sql_content) < 1000
                             THEN ReferenceScore(last_call.sql_content) ELSE 1000)

\* the units of the analysis that carry a score (an unreadable file gives an
\* item with an error text, without score and without hours)
ScoredUnits == {u \in 1..Len(Units) : HasField(Units[u].analysis, "complexity_score")}

\* C24: for every scored unit of a fallback analysis, estimated_effort_hours is
\* max(1, floor(score x 2)), a whole number of at least 1, and with the score in
\* [1.0, 10.0] it lies between 2 and 20.
C24_EffortIsTwiceScoreFloored ==
    (FallbackAnalysisDone /\ result.success) =>
        \A u \in ScoredUnits :
            LET score == Units[u].analysis.complexity_score
                hours == Units[u].analysis.estimated_effort_hours
            IN  /\ hours \in Nat /\ hours >= 1
                /\ \/ (hours = 1 /\ score * 2 < 200)
                   \/ (hours * 100 <= score * 2 /\ score * 2 < (hours + 1) * 100)
                /\ (score >= 100 /\ score <= 1000) => (hours >= 2 /\ hours <= 20)

\* C24 witness: a unit of score 4.1, whose doubled score 8.2 is not whole, next
\* to a unit of score 10.0
C24_Witness ==
    /\ FallbackAnalysisDone /\ result.success
    /\ \E u \in ScoredUnits : /\ Units[u].analysis.complexity_score = 410
                              /\ Units[u].analysis.estimated_effort_hours = 8
    /\ \E u \in ScoredUnits : /\ Units[u].analysis.complexity_score = 1000
                              /\ Units[u].analysis.estimated_effort_hours = 20

StructuralRisks == {"Heavy subquery usage", "Very large file size"}

\* C25: the risk factors depend on the text alone and every match is collected:
\* the description of a risk keyword is in the result exactly when the keyword
\* is in the text, in any case; a structural risk is in the result exactly when
\* the text holds more than 5 subquery openings or more than 500 lines; the
\* result holds nothing else, whatever the score of the text is.
C25_RisksAreAllMatches ==
    ReturnedFrom("_identify_risk_factors") =>
        LET sql_content == last_call.sql_content
            risks == result.risks
        IN  /\ \A k \in 1..Len(risk_patterns) :
                  InSeq(risk_patterns[k].description, risks)
                     <=> StartsOf(Upper(sql_content), risk_patterns[k].pattern) # {}
            /\ (\E f \in StructuralRisks : InSeq(f, risks))
                  <=> \/ Cardinality(StartsOf(sql_content, SUBQUERY)) > 5
                      \/ LineCount(sql_content) > 500
            /\ \A i \in 1..Len(risks) :
                  \/ risks[i] \in StructuralRisks
                  \/ \E k \in 1..Len(risk_patterns) : risks[i] = risk_patterns[k].description

\* C25 witness: a text of six subquery openings, a cursor and over 500 lines,
\* whose score is capped, has three risk factors
C25_Witness ==
    /\ ReturnedFrom("_identify_risk_factors")
    /\ Cardinality(StartsOf(last_call.sql_content, SUBQUERY)) = 6
    /\ LineCount(last_call.sql_content) > 500
    /\ estimate_sql_complexity(last_call.sql_content) = 1000
    /\ result.risks = <<"Uses cursors (procedural logic)", "Heavy subquery usage", "Very large file size">>

\* C26 (as claimed): fallback transpilation from tsql to databricks appends the
\* LIMIT line only when a row-limiting clause (TOP and a number) was in the text
\* and was taken out: a text without such a clause, one that holds the letters
\* TOP inside another word included, gets no LIMIT line.
C26_LimitOnlyForTopClause ==
    (FallbackTranspileDone /\ RewrittenPair /\ TopClauses(SourceSql) = {}) =>
        /\ ~EndsWithText(result.transpiled_sql, LIMIT_SUFFIX)
        /\ Count(result.transpiled_sql, <<"L", "I", "M", "I", "T">>) = 0

\* the lines of the installed-extensions output, and the tokens of a line
InstalledLines == SplitOn(Strip(last_call.labs_output), "\n")
TokenAt(p) == SplitWS(InstalledLines[p[1]])[p[2]]
\* the places <<line, token>> of all tokens
TokenPlaces ==
    UNION {{<<l, t>> : t \in 1..Len(SplitWS(InstalledLines[l]))} : l \in 1..Len(InstalledLines)}
\* a token that holds a '.' and has at least 2 dot-separated parts
Dotted(token) == Contains(token, <<".">>) /\ Len(SplitOn(token, ".")) >= 2
\* the first place of a set of places: the earliest line, then the earliest token
FirstPlace(places) ==
    CHOOSE p \in places : \A q \in places : p[1] < q[1] \/ (p[1] = q[1] /\ p[2] <= q[2])

\* the lines of the output of the show query, and the fields of a line
ShowLines == SplitOn(last_call.show.stdout, "\n")
ShowFields(i) == SplitOn(ShowLines[i], ":")
\* what the show query gives when the lines of lines_with_version are the
\* 'key: value' lines to read the version from
FromShow(lines_with_version) ==
    IF last_call.show.kind = "ok" /\ lines_with_version # {}
    THEN Strip(ShowFields(CHOOSE i \in lines_with_version :
                             \A j \in lines_with_version : i <= j)[2])
    ELSE UNKNOWN

C28_FallbackAnalysisSaved ==
    (Called("analyze_legacy_sql") /\ last_call.output_file # None
       /\ TaggedFallback(result) /\ HasField(result, "success") /\ result.success)
    => InSeq(last_call.output_file, written)

\* C29: once __init__ has returned, whatever the flags and the outcomes of the
\* probe were, fallback_reason is set exactly when the tool is not available:
\* lakebridge_available = false comes with a non-empty fallback_reason, and
\* lakebridge_available = true comes with fallback_reason None,
\* compatibility_status 'compatible' and fallback_mode false.
C29_ReasonIffFallback ==
    phase = "ready" =>
        /\ ~lakebridge_available => (fallback_reason # None /\ NonEmptyText(fallback_reason))
        /\ lakebridge_available =>
              /\ fallback_reason = None
              /\ compatibility_status = "compatible"
              /\ ~fallback_mode

\* C29 witness: the query of the installed extensions timed out
C29_Witness ==
    /\ Called("__init__")
    /\ probe.cli = "ok" /\ probe.labs = "TimeoutExpired"
    /\ ~lakebridge_available
    /\ fallback_reason = Reason("Databricks labs command timeout", "")

(***************************************************************************)
(* C30                                                                     *)
(***************************************************************************)
MethodOps == {"analyze_legacy_sql", "transpile_sql", "test_connection"}
ProbeCmds == <<CliCmd, LabsCmd, ShowCmd>>
\* a probe command was ended by an exception that is neither "not found" nor a timeout
ProbeBroke == "OSError" \in {probe.cli, probe.labs, probe.show}

\* what a call has run so far: a method at most one command, the construction
\* each probe command at most once and in order; only a broken probe raises
OneToolRunPerCall ==
    /\ last_call.op \in MethodOps => Len(invocations) <= 1
    /\ last_call.op = "__init__" =>
          /\ Len(invocations) <= 3
          /\ invocations = SubSeq(ProbeCmds, 1, Len(invocations))
    /\ phase = "raised" => last_call.op = "__init__" /\ ProbeBroke

\* the steps of a call: the tool is started only when the call is entered, the
\* step that ends the wait or the computation returns the call without
\* another command, and call n+1 is entered only after call n has returned
CallStep ==
    /\ phase' = "native" => phase = "ready" /\ Len(invocations') = 1
    /\ phase' = "running" => phase = "ready" /\ Len(invocations') = 0
    /\ phase \in {"native", "running"} =>
          /\ phase' = "ready"
          /\ invocations' = invocations
          /\ result' # NoResult
          /\ last_call'.op = last_call.op
    /\ SeqOf(last_call') # SeqOf(last_call) =>
          /\ phase = "ready"
          /\ phase' \in {"native", "running"}
          /\ SeqOf(last_call') = SeqOf(last_call) + 1

\* C30: every operation of the adapter (construction, analyze_legacy_sql,
\* transpile_sql, test_connection) that is in progress eventually returns to
\* its caller, given that every external invocation ends; a call runs the
\* native tool at most once and never again once it has ended, whether the
\* answer then comes from the tool or from the fallback, and calls return in
\* the order they were issued
C30_EveryCallReturnsInOrder ==
    /\ []OneToolRunPerCall
    /\ [][CallStep]_vars
    /\ InACall ~> (phase = "ready" \/ (phase = "raised" /\ ProbeBroke))

\* the second call after the construction was a native analysis whose tool
\* timed out, and it returned the fallback analysis
C30_Witness ==
    /\ phase = "ready"
    /\ last_call.op = "analyze_legacy_sql"
    /\ last_call.seq = MaxCalls
    /\ last_call.tool = "TimeoutExpired"
    /\ invocations = <<AnalyzeCmd>>
    /\ result.success

====
